---- MODULE Spec2Model ----
(***************************************************************************)
(* Solution provisioning: the install pipeline of                          *)
(* nodejs/src/services/solutionInstall.js, the progress gateway of         *)
(* nodejs/src/controller/web/solutionInstallProgressController.js and the  *)
(* catalog SOLUTION_CONFIGS.                                               *)
(*                                                                         *)
(* Text is a sequence of one-character strings; a file is NoFile or a      *)
(* text.  A JavaScript object with string keys is an ordered mapping: a    *)
(* sequence of [k, v] records with distinct keys, in insertion order.      *)
(***************************************************************************)
EXTENDS Integers, Sequences, FiniteSets, TLC

VARIABLES
    catalog,      \* SOLUTION_CONFIGS: id -> config, fixed at process start
    rootEnv,      \* the file /workspace/.env
    repos,        \* /workspace/<repoName>: the clone directory's content
    composeV1,    \* `docker-compose` is on the host PATH
    composeV2,    \* the `docker compose` plugin is on the host
    containers,   \* container name -> "absent" | "created" | "exited" | "up"
    images,       \* image tags present on the host
    pc,           \* per request: the await the handler is suspended at
    query,        \* per request: req.query.solutionType
    invoked,      \* per request: installWithProgress has been called
    events,       \* per request: the events written to res, in order
    ended,        \* per request: number of res.end() calls
    ops,          \* per request: commands and file-system calls made, in order
    err,          \* per request: the error installWithProgress threw
    result,       \* per request: the value installWithProgress returned
    structure,    \* per request: repoStructure of detectRepoStructure
    portIdx,      \* per request: loop index in cleanupExistingContainers
    children,     \* per request: the child processes runCommand has spawned
                  \* and not yet seen close, named by the await they belong to
    rootVars,     \* mergeEnvironmentFiles: rootVars of the last call
    localVars,    \* mergeEnvironmentFiles: localVars of the last call
    mergedVars,   \* mergeEnvironmentFiles: mergedVars of the last call
    outputs,      \* mergeEnvironmentFiles: per returned call, what outputPath
                  \* held before the call and what the call left there
    io            \* the file-system call in progress, where a call is followed
                  \* system call by system call

hostVars == <<catalog, rootEnv, repos, composeV1, composeV2, containers, images>>
reqVars == <<pc, query, invoked, events, ended, ops, err, result, structure, portIdx,
             children>>
mergeVars == <<rootVars, localVars, mergedVars, outputs, io>>
vars == <<hostVars, reqVars, mergeVars>>

\* ------------------------------------------------------------------ bounds

\* Longest environment file, in lines, that SpecParse draws.
MaxLines == 3

\* Longest root and local environment files, in lines, that SpecMerge draws.
MaxMergeLines == 2

\* ------------------------------------------------------------------- text

\* A missing file, and the JavaScript value undefined where a text is read:
\* neither is a text, since a text holds one-character strings only.
NoFile == <<"NoFile">>
Undefined == <<"undefined">>

NL == "\n"
CR == "\r"
EQ == "="
HASH == "#"

\* String.prototype.trim strips these from both ends.
WhiteSpace == {" ", "\t", "\r", "\n"}

SubSeqFrom(s, i) == SubSeq(s, i, Len(s))

TrimLeft(s) ==
    LET RECURSIVE F(_)
        F(i) == IF i > Len(s) THEN <<>>
                ELSE IF s[i] \in WhiteSpace THEN F(i + 1)
                ELSE SubSeqFrom(s, i)
    IN F(1)

TrimRight(s) ==
    LET RECURSIVE F(_)
        F(i) == IF i < 1 THEN <<>>
                ELSE IF s[i] \in WhiteSpace THEN F(i - 1)
                ELSE SubSeq(s, 1, i)
    IN F(Len(s))

Trim(s) == TrimRight(TrimLeft(s))

\* indexOf: the first position of character c in s, 0 when there is none.
IndexOf(s, c) ==
    LET RECURSIVE F(_)
        F(i) == IF i > Len(s) THEN 0
                ELSE IF s[i] = c THEN i
                ELSE F(i + 1)
    IN F(1)

\* text.split(/\r?\n/): a "\n" ends a line, and one "\r" right before it
\* belongs to the separator.
SplitLines(text) ==
    LET StripCR(l) == IF Len(l) > 0 /\ l[Len(l)] = CR
                      THEN SubSeq(l, 1, Len(l) - 1) ELSE l
        RECURSIVE F(_, _, _)
        F(i, cur, acc) ==
            IF i > Len(text) THEN Append(acc, cur)
            ELSE IF text[i] = NL THEN F(i + 1, <<>>, Append(acc, StripCR(cur)))
            ELSE F(i + 1, Append(cur, text[i]), acc)
    IN F(1, <<>>, <<>>)

\* lines.join(sep)
JoinLines(lines, sep) ==
    LET RECURSIVE F(_)
        F(i) == IF i > Len(lines) THEN <<>>
                ELSE IF i = Len(lines) THEN lines[i]
                ELSE lines[i] \o sep \o F(i + 1)
    IN F(1)

\* ------------------------------------------------------- ordered mappings

Range(seq) == {seq[i] : i \in 1..Len(seq)}

Keys(m) == {m[i].k : i \in 1..Len(m)}

\* Object.prototype.hasOwnProperty.call(m, key)
HasKey(m, key) == \E i \in 1..Len(m) : m[i].k = key

\* Names every object literal inherits from Object.prototype, as texts.
InheritedNames ==
    {<<"v", "a", "l", "u", "e", "O", "f">>,
     <<"t", "o", "S", "t", "r", "i", "n", "g">>,
     <<"c", "o", "n", "s", "t", "r", "u", "c", "t", "o", "r">>,
     <<"_", "_", "p", "r", "o", "t", "o", "_", "_">>,
     <<"h", "a", "s", "O", "w", "n", "P", "r", "o", "p", "e", "r", "t", "y">>}

\* The inherited member such a name reads: a function or an object, never a
\* string.
InheritedMember == <<"[inherited]">>

\* key in m: own or inherited.
KeyIn(m, key) == HasKey(m, key) \/ key \in InheritedNames

\* m[key]: the own value, else the inherited member, else undefined.
Get(m, key) ==
    IF HasKey(m, key)
    THEN m[CHOOSE i \in 1..Len(m) : m[i].k = key].v
    ELSE IF key \in InheritedNames THEN InheritedMember
    ELSE Undefined

\* m[key] = value: an existing key keeps its place, a new one goes last.
Put(m, key, value) ==
    IF HasKey(m, key)
    THEN [i \in 1..Len(m) |-> IF m[i].k = key THEN [k |-> key, v |-> value] ELSE m[i]]
    ELSE Append(m, [k |-> key, v |-> value])

\* ---------------------------------------------------------- parseEnvFile

\* The filter of parseEnvFile on a trimmed line.
IsEntryLine(line) ==
    /\ line # <<>>
    /\ line[1] # HASH
    /\ IndexOf(line, EQ) > 0

LineKey(line) == Trim(SubSeq(line, 1, IndexOf(line, EQ) - 1))

LineValue(line) == Trim(SubSeqFrom(line, IndexOf(line, EQ) + 1))

\* Faulty variant: the first occurrence is kept even when it is empty.
ReduceStepFirstWins(acc, key, value) ==
    IF ~KeyIn(acc, key) THEN Put(acc, key, value) ELSE acc

\* The reducer: if (!(key in acc) || (acc[key] === '' && value !== ''))
\* acc[key] = value.
ReduceStep(acc, key, value) ==
    IF ~KeyIn(acc, key) \/ (Get(acc, key) = <<>> /\ value # <<>>)
    THEN Put(acc, key, value)
    ELSE acc

ParseText(text) ==
    LET lines == SplitLines(text)
        RECURSIVE F(_, _)
        F(i, acc) ==
            IF i > Len(lines) THEN acc
            ELSE LET line == Trim(lines[i])
                 IN IF IsEntryLine(line)
                    THEN F(i + 1, ReduceStep(acc, LineKey(line), LineValue(line)))
                    ELSE F(i + 1, acc)
    IN F(1, <<>>)

\* parseEnvFile(filePath): a missing file parses to {}.
ParseEnvFile(file) == IF file = NoFile THEN <<>> ELSE ParseText(file)

\* ------------------------------------------------- mergeEnvironmentFiles

\* JavaScript truthiness of a value read from a mapping.
Truthy(val) == val # Undefined /\ val # <<>>

NonEmpty(val) == Truthy(val) /\ Trim(val) # <<>>

\* Faulty variant: a non-empty root value is kept over the local one.
MergeValueRootWins(localVal, rootVal) ==
    IF NonEmpty(rootVal) THEN rootVal
    ELSE IF NonEmpty(localVal) THEN localVal
    ELSE <<>>

\* Faulty variant: an empty local value gives way to whatever rootVars[key]
\* reads, also to undefined.
MergeValueRootWhenLocalEmpty(localVal, rootVal) ==
    IF NonEmpty(localVal) THEN localVal ELSE rootVal

\* The value stored for a key of localVars.
MergeValue(localVal, rootVal) ==
    IF NonEmpty(localVal) THEN localVal
    ELSE IF NonEmpty(rootVal) THEN rootVal
    ELSE IF Truthy(localVal) THEN localVal
    ELSE IF Truthy(rootVal) THEN rootVal
    ELSE <<>>

\* mergedVars: a copy of rootVars, then one assignment per key of localVars.
MergeVars(rVars, lVars) ==
    LET RECURSIVE F(_, _)
        F(i, acc) ==
            IF i > Len(lVars) THEN acc
            ELSE F(i + 1, Put(acc, lVars[i].k,
                              MergeValue(lVars[i].v, Get(rVars, lVars[i].k))))
    IN F(1, rVars)

\* Faulty variant: the entries are written as KEY:VALUE.
SerializeColon(m) ==
    JoinLines([i \in 1..Len(m) |-> m[i].k \o <<":">> \o m[i].v], <<NL>>)

\* envContent: one KEY=VALUE line per entry, joined by "\n".
Serialize(m) ==
    JoinLines([i \in 1..Len(m) |-> m[i].k \o <<EQ>> \o m[i].v], <<NL>>)

\* ---------------------------------------------------------------- catalog

\* `${undefined}` in a template literal, and a missing property of a config.
UNDEF == "undefined"

CatalogIds == {"ai-doc-editor", "ai-recruiter", "ai-landing-page-generator",
               "seo-content-gen"}

\* SOLUTION_CONFIGS as written (repoUrl and branchName only name the clone).
SOLUTION_CONFIGS ==
    [id \in CatalogIds |->
        CASE id = "ai-doc-editor" ->
               [repoName |-> "ai-doc-editor", imageName |-> "ai-doc-editor-img",
                containerName |-> "ai-doc-editor-container", port |-> "3002",
                installType |-> "docker-compose", envFile |-> "env.example",
                additionalPorts |-> <<>>]
          [] id = "ai-recruiter" ->
               [repoName |-> "foloup", imageName |-> "foloup-img",
                containerName |-> "foloup-container", port |-> "4000",
                installType |-> "docker-compose", envFile |-> ".env.example",
                additionalPorts |-> <<>>]
          [] id = "ai-landing-page-generator" ->
               [repoName |-> "landing-page-content-generator",
                imageName |-> "landing-page-content-generator-img",
                containerName |-> "landing-page-content-generator-container",
                port |-> "4001",
                installType |-> "docker-compose", envFile |-> "example.env",
                additionalPorts |-> <<>>]
          [] id = "seo-content-gen" ->
               [repoName |-> "seo-content-gen", imageName |-> "seo-content-gen-img",
                containerName |-> "seo-content-gen-container", port |-> "3001",
                installType |-> "docker-compose", envFile |-> ".env.example",
                additionalPorts |-> <<"3001", "9002", "3003">>]]

\* installType is documented as "docker or docker-compose"; any other string
\* is the unsupported case of installWithProgress.
InstallTypes == {"docker", "docker-compose", "kubernetes"}

\* The catalogs a process can start with: the one written, or the one written
\* with the installType of one entry edited.
Catalogs ==
    {SOLUTION_CONFIGS} \cup
    {[SOLUTION_CONFIGS EXCEPT ![id].installType = t] :
        id \in CatalogIds, t \in InstallTypes}

\* Property names every object literal inherits from Object.prototype.
InheritedKeys == {"constructor", "toString", "valueOf", "hasOwnProperty",
                  "isPrototypeOf", "propertyIsEnumerable", "toLocaleString",
                  "__proto__"}

\* What reading the config fields of an inherited member gives.
InheritedObject ==
    [repoName |-> UNDEF, imageName |-> UNDEF, containerName |-> UNDEF,
     port |-> UNDEF, installType |-> UNDEF, envFile |-> UNDEF,
     additionalPorts |-> <<>>]

\* `config` is truthy after config = SOLUTION_CONFIGS[solutionType]: a
\* property read follows the prototype chain.
ConfigFound(cat, id) == id \in DOMAIN cat \/ id \in InheritedKeys

\* SOLUTION_CONFIGS[solutionType], where ConfigFound.
Lookup(cat, id) == IF id \in DOMAIN cat THEN cat[id] ELSE InheritedObject

\* The solutionType values requests carry: every catalog id, none, an id
\* nothing defines, and the name of an inherited member.
Queries == CatalogIds \cup {"", "no-such-solution", "constructor"}

\* ------------------------------------------------------------ file system

ComposeFiles == <<"docker-compose.yml", "docker-compose.yaml", "compose.yml",
                  "compose.yaml">>

DescriptorNames == {ComposeFiles[i] : i \in 1..Len(ComposeFiles)} \cup {"Dockerfile"}

EnvFileNames == {"env.example", ".env.example", "example.env", ".env", ".env.temp",
                 ".env.temp.temp"}

\* tempEnvPath of the install functions, the outputPath they pass to
\* mergeEnvironmentFiles, and its tempFile = outputPath + '.temp'.
TempEnvPath == ".env.temp"
TempFile == TempEnvPath \o ".temp"

RepoNames == {SOLUTION_CONFIGS[id].repoName : id \in CatalogIds} \cup {UNDEF}

\* Containers: the named container of each solution, and its composition,
\* named after the directory it is started in.
ContainerNames ==
    {SOLUTION_CONFIGS[id].containerName : id \in CatalogIds} \cup {UNDEF}
    \cup {SOLUTION_CONFIGS[id].repoName : id \in CatalogIds}

\* A path that does not exist.  Of a directory: whether it exists, the
\* deployment descriptors in it, its environment files, and the request whose
\* `git clone` made it.
NoRepo == [exists |-> FALSE, present |-> {}, f |-> [n \in EnvFileNames |-> NoFile],
           by |-> "none"]

\* Faulty variant: the file is opened for appending (flag 'a').
OpenAppending(repo, name) ==
    IF repo.f[name] = NoFile THEN [repo EXCEPT !.f[name] = <<>>] ELSE repo

\* A file is opened for writing (flag 'w' of writeFileSync, O_TRUNC of cp):
\* it is created if missing and emptied if not.
OpenTruncating(repo, name) == [repo EXCEPT !.f[name] = <<>>]

\* The data is written to the file just opened.
WriteData(repo, name, data) == [repo EXCEPT !.f[name] = @ \o data]

\* fs.writeFileSync(name, data), as a whole.
WriteFileSync(repo, name, data) == WriteData(OpenTruncating(repo, name), name, data)

\* fs.renameSync(from, to): one step of the file system.
RenameSync(repo, from, to) == [repo EXCEPT !.f[to] = repo.f[from], !.f[from] = NoFile]

\* What a returned call of mergeEnvironmentFiles is remembered by.
Output(before, after) == [before |-> before, after |-> after]

\* ------------------------------------------------------------- runCommand

\* How a spawned `sh -c command` ends: exit status 0, a non-zero exit status,
\* or the child failing to start ('error').  Under `cmd || true` the shell
\* exits 0 also when cmd failed: "masked".
Outcomes == {"ok", "nonzero", "spawnerr"}
MaskedOutcomes == {"ok", "masked", "spawnerr"}

\* Faulty variant: a non-zero exit status resolves like a zero one.
RunCommandRejectsOnSpawnErrorOnly(out) == out = "spawnerr"

\* runCommand rejects unless the exit status is 0.
RunCommandRejects(out) == out \in {"nonzero", "spawnerr"}

\* The message of the Error runCommand rejects with.
CommandError(cmd, out) ==
    IF out = "nonzero" THEN <<"Command failed: ", cmd>> ELSE <<"spawn sh ", "ENOENT">>

NoError == <<>>
NoResult == [success |-> FALSE, port |-> UNDEF, solutionType |-> UNDEF]

\* --------------------------------------------------------------- requests

Reqs == {"r1"}

Config(r) == Lookup(catalog, query[r])

\* rootEnvPath of the install functions.
RootEnvPath == "/workspace/.env"

\* Faulty variant: the directory of the clone is the workspace itself.
RepoDirWorkspace(cfg) == "/workspace/"

\* repoPath = `/workspace/${config.repoName}`, as the string the commands get.
RepoDir(cfg) == "/workspace/" \o cfg.repoName

\* The path is the directory or lies under it.
Under(path, dir) ==
    LET d == IF SubSeq(dir, Len(dir), Len(dir)) = "/" THEN dir ELSE dir \o "/"
    IN path \o "/" = d \/ (Len(d) <= Len(path) /\ SubSeq(path, 1, Len(d)) = d)

\* The root environment file after a command that removes, or writes files
\* into, the directory dir: it is lost or overwritten if it lies there.
RootAfter(root, dir) == IF Under(RootEnvPath, dir) THEN NoFile ELSE root

\* The root environment file after data was written to the file at path.
RootWritten(root, path, data) == IF path = RootEnvPath THEN data ELSE root

\* tempEnvPath = `${repoPath}/.env.temp`, the outputPath of the merge.
OutputPath(cfg) == RepoDir(cfg) \o "/" \o ".env.temp"

\* Faulty variant: every solution is cloned into the same directory.
RepoPathShared(cfg) == "foloup"

\* repoPath = `/workspace/${config.repoName}`, named by its last component.
RepoPath(cfg) == cfg.repoName

Repo(r) == repos[RepoPath(Config(r))]

Event(type, message) == [type |-> type, message |-> message]

ConnectedEvent == Event("connected", <<"Connected to installation progress stream", "">>)

\* error.message || 'Installation failed'
MessageOr(message) ==
    IF message = <<"", "">> THEN <<"Installation failed", "">> ELSE message

\* Faulty variant: the catch of the controller closes the stream silently.
OnRejectedSilent(e) == <<>>

\* Faulty variant: the error event is written by the service and again by
\* the controller.
OnRejectedTwice(e) == <<Event("error", MessageOr(e)), Event("error", MessageOr(e))>>

\* What the catch of getInstallationProgress writes before res.end().
OnRejected(e) == <<Event("error", MessageOr(e))>>

\* What getInstallationProgress writes after installWithProgress resolved,
\* before res.end(): nothing; the resolved value is not read.
OnResolved(value) == <<>>

Op(name, out) == [op |-> name, out |-> out]

\* The awaits that are not on a child process: the request has not begun or
\* has ended, or the handler is at one of its synchronous calls.
NoChild == {"idle", "done", "ds_merge", "dc_merge", "dc_detect"}

\* Faulty variant: the promise of runCommand settles while the child runs.
ClosedNone(cs, at) == cs

\* runCommand settles its promise on the close of the child (or on the error
\* of a spawn that made none): the child awaited at `at` is no more.
Closed(cs, at) == cs \ {at}

\* spawn('sh', ['-c', command]) for the command awaited at `next`.
Spawned(cs, next) == IF next \in NoChild THEN cs ELSE cs \cup {next}

\* The call resumes after its await and suspends at the next one.
Continue(r, op, next) ==
    /\ ops' = [ops EXCEPT ![r] = Append(@, op)]
    /\ pc' = [pc EXCEPT ![r] = next]
    /\ children' = [children EXCEPT ![r] = Spawned(Closed(@, pc[r]), next)]
    /\ UNCHANGED <<events, ended, err, result>>

\* installWithProgress throws e: its catch logs and rethrows, the catch of
\* the controller writes the error event and ends the response.
Reject(r, op, e) ==
    /\ ops' = [ops EXCEPT ![r] = Append(@, op)]
    /\ pc' = [pc EXCEPT ![r] = "done"]
    /\ err' = [err EXCEPT ![r] = e]
    /\ events' = [events EXCEPT ![r] = @ \o OnRejected(e)]
    /\ ended' = [ended EXCEPT ![r] = @ + 1]
    /\ children' = [children EXCEPT ![r] = Closed(@, pc[r])]
    /\ UNCHANGED result

\* Faulty variant: the controller leaves the response open after
\* installWithProgress resolved.
ReturnWithoutEnd(r, op) ==
    LET value == [success |-> TRUE, port |-> Config(r).port,
                  solutionType |-> query[r]]
    IN /\ ops' = [ops EXCEPT ![r] = Append(@, op)]
       /\ pc' = [pc EXCEPT ![r] = "done"]
       /\ result' = [result EXCEPT ![r] = value]
       /\ children' = [children EXCEPT ![r] = Closed(@, pc[r])]
       /\ UNCHANGED <<events, ended, err>>

\* installWithProgress returns; the controller ends the response.
Return(r, op) ==
    LET value == [success |-> TRUE, port |-> Config(r).port,
                  solutionType |-> query[r]]
    IN /\ ops' = [ops EXCEPT ![r] = Append(@, op)]
       /\ pc' = [pc EXCEPT ![r] = "done"]
       /\ result' = [result EXCEPT ![r] = value]
       /\ events' = [events EXCEPT ![r] = @ \o OnResolved(value)]
       /\ ended' = [ended EXCEPT ![r] = @ + 1]
       /\ children' = [children EXCEPT ![r] = Closed(@, pc[r])]
       /\ UNCHANGED err

\* Faulty variant: the controller leaves the check to installWithProgress.
MissingSolutionTypeNever(q) == FALSE

\* !solutionType, for solutionType = req.query.solutionType || ''
MissingSolutionType(q) == q = ""

\* getInstallationProgress up to its first suspension: the SSE head and the
\* connected event, then either the early error, or installWithProgress up to
\* the spawn of `rm -rf`.
GetInstallationProgress(r) ==
    /\ pc[r] = "idle"
    /\ \E q \in Queries :
        /\ query' = [query EXCEPT ![r] = q]
        /\ IF MissingSolutionType(q)
           THEN /\ events' = [events EXCEPT ![r] =
                       <<ConnectedEvent,
                         Event("error", <<"Solution type is required", "">>)>>]
                /\ ended' = [ended EXCEPT ![r] = @ + 1]
                /\ pc' = [pc EXCEPT ![r] = "done"]
                /\ UNCHANGED <<invoked, err, children>>
           ELSE /\ invoked' = [invoked EXCEPT ![r] = TRUE]
                /\ IF q = "" \/ ~ConfigFound(catalog, q)
                   THEN LET e == IF q = ""
                                 THEN <<"Solution type is required", "">>
                                 ELSE <<"Unknown solution type: ", q>>
                        IN /\ err' = [err EXCEPT ![r] = e]
                           /\ events' = [events EXCEPT ![r] =
                                  <<ConnectedEvent>> \o OnRejected(e)]
                           /\ ended' = [ended EXCEPT ![r] = @ + 1]
                           /\ pc' = [pc EXCEPT ![r] = "done"]
                           /\ UNCHANGED children
                   ELSE /\ events' = [events EXCEPT ![r] = <<ConnectedEvent>>]
                        /\ pc' = [pc EXCEPT ![r] = "rm_repo"]
                        /\ children' = [children EXCEPT ![r] = Spawned(@, "rm_repo")]
                        /\ UNCHANGED <<ended, err>>
    /\ UNCHANGED <<hostVars, mergeVars, ops, result, structure, portIdx>>

\* Faulty variant: rm without -r, which leaves a directory alone.
DeletedNothing(repo) == repo

\* The path after rm -rf has done its work, whoever made the directory and
\* whoever works in it.
Deleted(repo) == NoRepo

\* Step 1: rm -rf ${repoPath}
CleanRepo(r) ==
    /\ pc[r] = "rm_repo"
    /\ \E out \in Outcomes :
        LET op == Op("rm -rf", out)
        IN IF RunCommandRejects(out)
           THEN Reject(r, op, CommandError("rm -rf", out)) /\ UNCHANGED repos
           ELSE /\ repos' = [repos EXCEPT ![RepoPath(Config(r))] = Deleted(@)]
                /\ Continue(r, op, "clone")
    /\ rootEnv' = RootAfter(rootEnv, RepoDir(Config(r)))
    /\ UNCHANGED <<catalog, composeV1, composeV2, containers, images>>
    /\ UNCHANGED <<query, invoked, structure, portIdx, mergeVars>>

\* The repository roots a clone can produce: which deployment descriptors it
\* has, and whether it has the template named by envFile.
Layouts == {{}, {"Dockerfile"}, {"docker-compose.yml"},
            {"docker-compose.yml", "Dockerfile"}, {"compose.yml", "compose.yaml"},
            {"docker-compose.yaml", "compose.yml", "Dockerfile"}}

TemplateText == <<"B", "=", "2", "\n", "C", "=", "\n", "D", "=", "4">>

Templates == {NoFile, TemplateText}

RootText == <<"A", "=", "1", "\n", "B", "=", "\n", "D", "=", "5">>

RootEnvs == {NoFile, RootText}

Cloned(r, cfg, layout, tmpl) ==
    [exists |-> TRUE, present |-> layout,
     f |-> [n \in EnvFileNames |-> IF n = cfg.envFile THEN tmpl ELSE NoFile],
     by |-> r]

\* Step 2: git clone -b ${branchName} ${repoUrl} ${repoPath}; git refuses a
\* target that exists.
CloneRepo(r) ==
    /\ pc[r] = "clone"
    /\ \E out \in Outcomes :
        LET op == Op("git clone", out)
        IN /\ out = "ok" => ~Repo(r).exists
           /\ IF RunCommandRejects(out)
              THEN Reject(r, op, CommandError("git clone", out)) /\ UNCHANGED repos
              ELSE /\ \E layout \in Layouts, tmpl \in Templates :
                        repos' = [repos EXCEPT ![RepoPath(Config(r))] =
                                     Cloned(r, Config(r), layout, tmpl)]
                   /\ Continue(r, op, "cleanup_rm")
    /\ rootEnv' = RootAfter(rootEnv, RepoDir(Config(r)))
    /\ UNCHANGED <<catalog, composeV1, composeV2, containers, images>>
    /\ UNCHANGED <<query, invoked, structure, portIdx, mergeVars>>

\* The ports a container publishes: the named container of a solution its
\* port, the composition of a solution its port and its additional ports.
Publishes(name) ==
    UNION {(IF name = SOLUTION_CONFIGS[id].containerName
            THEN {SOLUTION_CONFIGS[id].port} ELSE {})
           \cup
           (IF name = SOLUTION_CONFIGS[id].repoName
            THEN {SOLUTION_CONFIGS[id].port}
                 \cup {SOLUTION_CONFIGS[id].additionalPorts[i] :
                         i \in 1..Len(SOLUTION_CONFIGS[id].additionalPorts)}
            ELSE {}) : id \in CatalogIds}

\* Step 4 of installWithProgress, up to the first await of the install
\* function it calls.
Dispatch(r, op) ==
    LET cfg == Config(r)
    IN IF cfg.installType = "docker"
       THEN Continue(r, op, IF cfg.envFile # UNDEF THEN "ds_materialize" ELSE "ds_merge")
       ELSE IF cfg.installType = "docker-compose"
       THEN Continue(r, op, "dc_materialize")
       ELSE Reject(r, op, <<"Unsupported installation type: ", cfg.installType>>)

\* Faulty variant: the catch of cleanupExistingContainers rethrows.
CleanupRethrown(r, op, e) == Reject(r, op, e)

\* The catch of cleanupExistingContainers: a warning is logged, the function
\* returns and installWithProgress goes on to step 4.
CleanupCaught(r, op, e) == Dispatch(r, op)

\* Faulty variant: docker rm without -f, which leaves a container alone.
RemovedNothing(cs, name) == cs

\* The containers after docker rm -f ${name} has done its work.
Removed(cs, name) == [cs EXCEPT ![name] = "absent"]

\* Faulty variant: docker ps -q without the publish filter.
StoppedAll(cs, port) ==
    [n \in ContainerNames |-> IF cs[n] = "up" THEN "exited" ELSE cs[n]]

\* The containers after docker ps -q --filter "publish=${port}" | xargs -r
\* docker stop has done its work: docker ps lists running containers.
Stopped(cs, port) ==
    [n \in ContainerNames |->
        IF cs[n] = "up" /\ port \in Publishes(n) THEN "exited" ELSE cs[n]]

\* cleanupExistingContainers: docker rm -f ${containerName} || true.
CleanupMainContainer(r) ==
    /\ pc[r] = "cleanup_rm"
    /\ \E out \in MaskedOutcomes :
        LET op == Op("docker rm -f", out)
            cfg == Config(r)
        IN /\ containers' = IF out = "ok"
                            THEN Removed(containers, cfg.containerName)
                            ELSE containers
           /\ IF RunCommandRejects(out)
              THEN /\ CleanupCaught(r, op, CommandError("docker rm -f", out))
                   /\ UNCHANGED portIdx
              ELSE IF Len(cfg.additionalPorts) > 0
              THEN /\ Continue(r, op, "cleanup_port")
                   /\ portIdx' = [portIdx EXCEPT ![r] = 1]
              ELSE Dispatch(r, op) /\ UNCHANGED portIdx
    /\ UNCHANGED <<catalog, rootEnv, repos, composeV1, composeV2, images>>
    /\ UNCHANGED <<query, invoked, structure, mergeVars>>

\* cleanupExistingContainers, one turn of the loop:
\* docker ps -q --filter "publish=${port}" | xargs -r docker stop || true
CleanupPort(r) ==
    /\ pc[r] = "cleanup_port"
    /\ \E out \in MaskedOutcomes :
        LET op == Op("docker stop", out)
            cfg == Config(r)
            port == cfg.additionalPorts[portIdx[r]]
        IN /\ containers' = IF out = "ok" THEN Stopped(containers, port) ELSE containers
           /\ IF RunCommandRejects(out)
              THEN /\ CleanupCaught(r, op, CommandError("docker stop", out))
                   /\ UNCHANGED portIdx
              ELSE IF portIdx[r] < Len(cfg.additionalPorts)
              THEN /\ Continue(r, op, "cleanup_port")
                   /\ portIdx' = [portIdx EXCEPT ![r] = @ + 1]
              ELSE Dispatch(r, op) /\ UNCHANGED portIdx
    /\ UNCHANGED <<catalog, rootEnv, repos, composeV1, composeV2, images>>
    /\ UNCHANGED <<query, invoked, structure, mergeVars>>

\* Faulty variant: the file found is moved to .env, not copied.
MaterializedByMove(repo, name) ==
    IF name \in EnvFileNames /\ repo.f[name] # NoFile
    THEN [repo EXCEPT !.f[".env"] = repo.f[name], !.f[name] = NoFile]
    ELSE repo

\* find ${repoPath} -name "${name}" -exec sh -c 'cp "$1" "$(dirname "$1")/.env"'
\* at the repository root: a file of that name is copied over .env.
Materialized(repo, name) ==
    IF name \in EnvFileNames /\ repo.f[name] # NoFile
    THEN [repo EXCEPT !.f[".env"] = repo.f[name]]
    ELSE repo

\* An awaited command on the clone directory: pc at, command cmd, next pc on
\* success, whether the command can exit 0 here, and the directory after it.
RepoCommand(r, at, cmd, next, can, after) ==
    /\ pc[r] = at
    /\ \E out \in Outcomes :
        LET op == Op(cmd, out)
        IN /\ out = "ok" => can
           /\ IF RunCommandRejects(out)
              THEN Reject(r, op, CommandError(cmd, out)) /\ UNCHANGED repos
              ELSE /\ repos' = [repos EXCEPT ![RepoPath(Config(r))] = after]
                   /\ IF next = "return" THEN Return(r, op) ELSE Continue(r, op, next)
    /\ rootEnv' = RootAfter(rootEnv, RepoDir(Config(r)))
    /\ UNCHANGED <<catalog, composeV1, composeV2, containers, images>>
    /\ UNCHANGED <<query, invoked, structure, portIdx, mergeVars>>

\* mergeEnvironmentFiles('/workspace/.env', `${repoPath}/.env`,
\* `${repoPath}/.env.temp`): parse both, merge, write outputPath + '.temp' and
\* rename it to outputPath.  A file-system error is rethrown.
MergeCall(r, at, next) ==
    /\ pc[r] = at
    /\ \/ /\ Reject(r, Op("mergeEnvironmentFiles", "throw"),
                     <<"ENOENT: ", "writeFileSync">>)
          /\ UNCHANGED <<rootEnv, repos, mergeVars>>
       \/ LET rv == ParseEnvFile(rootEnv)
              lv == ParseEnvFile(Repo(r).f[".env"])
              mv == MergeVars(rv, lv)
          IN /\ Repo(r).exists
             /\ rootVars' = rv
             /\ localVars' = lv
             /\ mergedVars' = mv
             /\ repos' = [repos EXCEPT ![RepoPath(Config(r))] =
                             RenameSync(WriteFileSync(@, TempFile, Serialize(mv)),
                                        TempFile, TempEnvPath)]
             /\ rootEnv' = RootWritten(RootWritten(rootEnv,
                                                   OutputPath(Config(r)) \o ".temp",
                                                   Serialize(mv)),
                                       OutputPath(Config(r)), Serialize(mv))
             /\ outputs' = Append(outputs,
                                  Output(Repo(r).f[TempEnvPath], Serialize(mv)))
             /\ UNCHANGED io
             /\ Continue(r, Op("mergeEnvironmentFiles", "ok"), next)
    /\ UNCHANGED <<catalog, composeV1, composeV2, containers, images>>
    /\ UNCHANGED <<query, invoked, structure, portIdx>>

\* ------------------------------------------------- installDockerService

\* if (config.envFile): find ... cp to .env
DockerMaterialize(r) ==
    RepoCommand(r, "ds_materialize", "find cp", "ds_merge", Repo(r).exists,
                Materialized(Repo(r), Config(r).envFile))

DockerMerge(r) == MergeCall(r, "ds_merge", "ds_cp")

\* Faulty variant: the merged file is not copied over .env.
CopyNothing(repo) == repo

\* cp ${tempEnvPath} ${localEnvPath}, as a whole: cp opens the destination
\* truncating it, then writes what it reads from the source.
CopyTemp(repo) == WriteData(OpenTruncating(repo, ".env"), ".env", repo.f[TempEnvPath])

TempExists(repo) == repo.exists /\ repo.f[TempEnvPath] # NoFile

DockerCopyMerged(r) ==
    RepoCommand(r, "ds_cp", "cp", "ds_build", TempExists(Repo(r)), CopyTemp(Repo(r)))

\* docker build -t ${imageName} ${repoPath}
DockerBuild(r) ==
    /\ pc[r] = "ds_build"
    /\ \E out \in Outcomes :
        LET op == Op("docker build", out)
        IN /\ out = "ok" => Repo(r).exists /\ "Dockerfile" \in Repo(r).present
           /\ IF RunCommandRejects(out)
              THEN Reject(r, op, CommandError("docker build", out)) /\ UNCHANGED images
              ELSE /\ images' = images \cup {Config(r).imageName}
                   /\ Continue(r, op, "ds_run")
    /\ UNCHANGED <<catalog, rootEnv, repos, composeV1, composeV2, containers>>
    /\ UNCHANGED <<query, invoked, structure, portIdx, mergeVars>>

\* docker run -d --name ${containerName} --network weam_app-network
\* -p ${port}:${port} ${imageName}.  The name must be free; a container that
\* was created and failed to start stays behind.
DockerRun(r) ==
    /\ pc[r] = "ds_run"
    /\ \E out \in Outcomes, created \in BOOLEAN :
        LET op == Op("docker run", out)
            name == Config(r).containerName
            free == containers[name] = "absent"
        IN /\ out = "ok" => free /\ Config(r).imageName \in images
           /\ out = "ok" => ~created
           /\ created => free /\ out = "nonzero"
           /\ IF RunCommandRejects(out)
              THEN /\ Reject(r, op, CommandError("docker run", out))
                   /\ containers' = IF created
                                    THEN [containers EXCEPT ![name] = "created"]
                                    ELSE containers
              ELSE /\ containers' = [containers EXCEPT ![name] = "up"]
                   /\ Continue(r, op, "ds_restore")
    /\ UNCHANGED <<catalog, rootEnv, repos, composeV1, composeV2, images>>
    /\ UNCHANGED <<query, invoked, structure, portIdx, mergeVars>>

\* Restore: the same find ... cp as at the start, not guarded by envFile.
DockerRestore(r) ==
    RepoCommand(r, "ds_restore", "find cp", "ds_rm_temp", Repo(r).exists,
                Materialized(Repo(r), Config(r).envFile))

\* rm -f ${tempEnvPath}
RemoveTemp(repo) == [repo EXCEPT !.f[TempEnvPath] = NoFile]

DockerRemoveTemp(r) ==
    RepoCommand(r, "ds_rm_temp", "rm -f", "return", TRUE, RemoveTemp(Repo(r)))

\* ------------------------------------------ installDockerComposeService

\* find ... cp of config.envFile, or of .env.example when there is none.
ComposeMaterialize(r) ==
    RepoCommand(r, "dc_materialize", "find cp", "dc_merge", Repo(r).exists,
                Materialized(Repo(r), IF Config(r).envFile # UNDEF
                                      THEN Config(r).envFile ELSE ".env.example"))

ComposeMerge(r) == MergeCall(r, "dc_merge", "dc_detect")

\* Faulty variant: the Dockerfile is not looked for.
DetectComposeOnly(repo) ==
    LET hits == {i \in 1..Len(ComposeFiles) : ComposeFiles[i] \in repo.present}
        first == CHOOSE i \in hits : \A j \in hits : i <= j
    IN [hasDockerCompose |-> hits # {},
        hasDockerfile |-> FALSE,
        composeFile |-> IF hits # {} THEN ComposeFiles[first] ELSE "null"]

\* Faulty variant: a Dockerfile is taken to exist.
DetectAssumesDockerfile(repo) ==
    LET hits == {i \in 1..Len(ComposeFiles) : ComposeFiles[i] \in repo.present}
        first == CHOOSE i \in hits : \A j \in hits : i <= j
    IN [hasDockerCompose |-> hits # {},
        hasDockerfile |-> TRUE,
        composeFile |-> IF hits # {} THEN ComposeFiles[first] ELSE "null"]

\* Faulty variant: the loop over composeFiles has no break.
DetectLastMatch(repo) ==
    LET hits == {i \in 1..Len(ComposeFiles) : ComposeFiles[i] \in repo.present}
        last == CHOOSE i \in hits : \A j \in hits : i >= j
    IN [hasDockerCompose |-> hits # {},
        hasDockerfile |-> "Dockerfile" \in repo.present,
        composeFile |-> IF hits # {} THEN ComposeFiles[last] ELSE "null"]

\* detectRepoStructure(repoPath): the first compose file name that exists,
\* and whether Dockerfile exists.
Detect(repo) ==
    LET hits == {i \in 1..Len(ComposeFiles) : ComposeFiles[i] \in repo.present}
        first == CHOOSE i \in hits : \A j \in hits : i <= j
    IN [hasDockerCompose |-> hits # {},
        hasDockerfile |-> "Dockerfile" \in repo.present,
        composeFile |-> IF hits # {} THEN ComposeFiles[first] ELSE "null"]

NoStructure == [hasDockerCompose |-> FALSE, hasDockerfile |-> FALSE, composeFile |-> "null"]

\* detectRepoStructure and the branch on its result.
DetectRepoStructure(r) ==
    /\ pc[r] = "dc_detect"
    /\ LET st == Detect(Repo(r))
           op == Op("detectRepoStructure", "ok")
           cfg == Config(r)
       IN /\ structure' = [structure EXCEPT ![r] = st]
          /\ IF st.hasDockerCompose
             THEN Continue(r, op, "dc_check_v1")
             ELSE IF st.hasDockerfile
             THEN Continue(r, op, IF cfg.envFile # UNDEF
                                  THEN "ds_materialize" ELSE "ds_merge")
             ELSE Reject(r, op, <<"No Docker configuration found in repository", "">>)
    /\ UNCHANGED <<hostVars, mergeVars, query, invoked, portIdx>>

\* isDockerComposeAvailable: docker-compose --version
CheckComposeV1(r) ==
    /\ pc[r] = "dc_check_v1"
    /\ \E out \in Outcomes :
        /\ out = "ok" => composeV1
        /\ out = "nonzero" => ~composeV1
        /\ Continue(r, Op("docker-compose --version", out),
                    IF RunCommandRejects(out) THEN "dc_check_v2" ELSE "dc_cp")
    /\ UNCHANGED <<hostVars, mergeVars, query, invoked, structure, portIdx>>

\* isDockerComposeAvailable: docker compose version
CheckComposeV2(r) ==
    /\ pc[r] = "dc_check_v2"
    /\ \E out \in Outcomes :
        /\ out = "ok" => composeV2
        /\ out = "nonzero" => ~composeV2
        /\ Continue(r, Op("docker compose version", out),
                    IF RunCommandRejects(out) THEN "dc_install" ELSE "dc_cp")
    /\ UNCHANGED <<hostVars, mergeVars, query, invoked, structure, portIdx>>

\* installDockerCompose: wget the binary to /usr/local/bin; a failure is
\* logged and the caller goes on.
InstallDockerCompose(r) ==
    /\ pc[r] = "dc_install"
    /\ \E out \in Outcomes :
        /\ composeV1' = (composeV1 \/ out = "ok")
        /\ Continue(r, Op("wget docker-compose", out), "dc_cp")
    /\ UNCHANGED <<catalog, rootEnv, repos, composeV2, containers, images>>
    /\ UNCHANGED <<query, invoked, structure, portIdx, mergeVars>>

ComposeCopyMerged(r) ==
    RepoCommand(r, "dc_cp", "cp", "dc_up", TempExists(Repo(r)), CopyTemp(Repo(r)))

\* cd ${repoPath} && docker-compose up -d --build: needs `docker-compose` on
\* the PATH; a failed run may leave services created.
ComposeUp(r) ==
    /\ pc[r] = "dc_up"
    /\ \E out \in Outcomes, partial \in BOOLEAN :
        LET op == Op("docker-compose up", out)
            stack == Config(r).repoName
        IN /\ out = "ok" => composeV1 /\ Repo(r).exists /\ ~partial
           /\ partial => composeV1 /\ out = "nonzero" /\ containers[stack] = "absent"
           /\ IF RunCommandRejects(out)
              THEN /\ Reject(r, op, CommandError("docker-compose up", out))
                   /\ containers' = IF partial
                                    THEN [containers EXCEPT ![stack] = "created"]
                                    ELSE containers
              ELSE /\ containers' = [containers EXCEPT ![stack] = "up"]
                   /\ Continue(r, op, "dc_rm_temp")
    /\ UNCHANGED <<catalog, rootEnv, repos, composeV1, composeV2, images>>
    /\ UNCHANGED <<query, invoked, structure, portIdx, mergeVars>>

ComposeRemoveTemp(r) ==
    RepoCommand(r, "dc_rm_temp", "rm -f", "return", TRUE, RemoveTemp(Repo(r)))

\* ---------------------------------------------------------- specification

Init ==
    /\ catalog \in Catalogs
    /\ rootEnv \in RootEnvs
    /\ repos = [n \in RepoNames |-> NoRepo]
    /\ composeV1 \in BOOLEAN
    /\ composeV2 \in BOOLEAN
    /\ containers = [n \in ContainerNames |-> "absent"]
    /\ images = {}
    /\ pc = [r \in Reqs |-> "idle"]
    /\ query = [r \in Reqs |-> ""]
    /\ invoked = [r \in Reqs |-> FALSE]
    /\ events = [r \in Reqs |-> <<>>]
    /\ ended = [r \in Reqs |-> 0]
    /\ ops = [r \in Reqs |-> <<>>]
    /\ err = [r \in Reqs |-> NoError]
    /\ result = [r \in Reqs |-> NoResult]
    /\ structure = [r \in Reqs |-> NoStructure]
    /\ portIdx = [r \in Reqs |-> 0]
    /\ children = [r \in Reqs |-> {}]
    /\ rootVars = <<>>
    /\ localVars = <<>>
    /\ mergedVars = <<>>
    /\ outputs = <<>>
    /\ io = "none"

\* One step of the request r.
Step(r) ==
        \/ GetInstallationProgress(r)
        \/ CleanRepo(r)
        \/ CloneRepo(r)
        \/ CleanupMainContainer(r)
        \/ CleanupPort(r)
        \/ DockerMaterialize(r)
        \/ DockerMerge(r)
        \/ DockerCopyMerged(r)
        \/ DockerBuild(r)
        \/ DockerRun(r)
        \/ DockerRestore(r)
        \/ DockerRemoveTemp(r)
        \/ ComposeMaterialize(r)
        \/ ComposeMerge(r)
        \/ DetectRepoStructure(r)
        \/ CheckComposeV1(r)
        \/ CheckComposeV2(r)
        \/ InstallDockerCompose(r)
        \/ ComposeCopyMerged(r)
        \/ ComposeUp(r)
        \/ ComposeRemoveTemp(r)

Next == \E r \in Reqs : Step(r)

Spec == Init /\ [][Next]_vars

\* ------------------------------------------------- vocabulary of claims

Last(seq) == seq[Len(seq)]

\* The attempt of request r has ended in Failed / in Succeeded.
Failed(r) == pc[r] = "done" /\ invoked[r] /\ err[r] # NoError
Succeeded(r) == pc[r] = "done" /\ result[r].success

StageOrder == <<"CleaningRepo", "Cloning", "CleaningContainers", "DetectingStructure",
                "MergingEnv", "Building", "Running">>

\* The stage an operation of the attempt enters, if it enters one: the stage
\* is entered when its first operation starts, `docker-compose up -d --build`
\* builds and runs.
StageOf(name) ==
    CASE name = "rm -rf" -> <<"CleaningRepo">>
      [] name = "git clone" -> <<"Cloning">>
      [] name = "docker rm -f" -> <<"CleaningContainers">>
      [] name = "detectRepoStructure" -> <<"DetectingStructure">>
      [] name = "mergeEnvironmentFiles" -> <<"MergingEnv">>
      [] name = "docker build" -> <<"Building">>
      [] name = "docker run" -> <<"Running">>
      [] name = "docker-compose up" -> <<"Building", "Running">>
      [] OTHER -> <<>>

\* The stages an attempt has entered, in order.
StagesOf(log) ==
    LET RECURSIVE F(_)
        F(i) == IF i > Len(log) THEN <<>> ELSE StageOf(log[i].op) \o F(i + 1)
    IN F(1)

IsPrefix(s, t) == Len(s) <= Len(t) /\ s = SubSeq(t, 1, Len(s))

Count(seq, x) == Cardinality({i \in 1..Len(seq) : seq[i] = x})

ErrorEvents(r) == {i \in 1..Len(events[r]) : events[r][i].type = "error"}

\* --------------------------------------------------------------------- C1

\* C1: in every attempt the stages are entered in the order CleaningRepo,
\* Cloning, CleaningContainers, DetectingStructure, MergingEnv, Building,
\* Running with none skipped (so detection precedes the merge), and an
\* attempt that reaches Succeeded has run the detection.
StagesInOrder ==
    \A r \in Reqs :
        /\ IsPrefix(StagesOf(ops[r]), StageOrder)
        /\ Succeeded(r) => Count(StagesOf(ops[r]), "DetectingStructure") = 1

\* --------------------------------------------------------------------- C2

\* C2: within one attempt no stage is entered twice; in particular the
\* environment merge runs at most once, also on the fallback from a composed
\* entry to the single-container path.
NoStageTwice ==
    \A r \in Reqs : \A st \in Range(StageOrder) : Count(StagesOf(ops[r]), st) <= 1

\* --------------------------------------------------------------------- C3

CloneFailure == Op("git clone", "nonzero")

\* C3: when the clone command exits non-zero the attempt ends in Failed with
\* the clone failure as its cause and the clone is the last operation of the
\* attempt: no cleanup, detection, merge, build, run or compose-up follows.
CloneFailureIsTerminal ==
    \A r \in Reqs : \A i \in 1..Len(ops[r]) :
        ops[r][i] = CloneFailure =>
            /\ i = Len(ops[r])
            /\ Failed(r)
            /\ err[r] = <<"Command failed: ", "git clone">>
            /\ StagesOf(ops[r]) = <<"CleaningRepo", "Cloning">>

\* An attempt whose clone exited non-zero has ended.
CloneFailed == \E r \in Reqs : ops[r] # <<>> /\ Last(ops[r]) = CloneFailure /\ pc[r] = "done"

\* --------------------------------------------------------------------- C4

\* C4: a request whose solutionType is not a key of the catalog runs no
\* command at all and ends with exactly one error event and the channel
\* closed.
UnknownIdHasNoSideEffect ==
    \A r \in Reqs :
        (pc[r] # "idle" /\ query[r] \notin DOMAIN catalog) =>
            /\ ops[r] = <<>>
            /\ pc[r] = "done" => Cardinality(ErrorEvents(r)) = 1 /\ ended[r] = 1

\* --------------------------------------------------------------------- C5

\* C5: a request without a solution identifier gets the connected event and
\* one error event, the channel is closed, and installWithProgress is never
\* called and no command is run.
MissingIdNeverInvokes ==
    \A r \in Reqs :
        (pc[r] # "idle" /\ query[r] = "") =>
            /\ ~invoked[r]
            /\ ops[r] = <<>>
            /\ pc[r] = "done"
            /\ events[r] = <<ConnectedEvent,
                             Event("error", <<"Solution type is required", "">>)>>
            /\ ended[r] = 1

\* A request without a solution identifier has been answered.
MissingIdAnswered == \E r \in Reqs : pc[r] = "done" /\ query[r] = "" /\ ended[r] = 1

\* --------------------------------------------------------------------- C6

\* C6: a request whose attempt reaches Succeeded has, as its last event, a
\* succeeded event carrying the port of the solution.
SuccessEmitsSucceeded ==
    \A r \in Reqs :
        Succeeded(r) =>
            /\ Last(events[r]).type = "succeeded"
            /\ Last(events[r]).message[2] = Config(r).port

\* --------------------------------------------------------------------- C7

\* C7: an attempt that ends in Failed has written exactly one error event,
\* carrying the message of the error, as the last event before the channel
\* was closed, and the channel is closed.
FailureEmitsOneError ==
    \A r \in Reqs :
        Failed(r) =>
            /\ Cardinality(ErrorEvents(r)) = 1
            /\ Last(events[r]) = Event("error", err[r])
            /\ err[r] # <<"", "">>
            /\ ended[r] = 1

\* An attempt has failed at the container start after a fallback to the
\* single-container path.
FailedLate ==
    \E r \in Reqs :
        /\ Failed(r)
        /\ ops[r] # <<>>
        /\ Last(ops[r]).op = "docker run"
        /\ Count(StagesOf(ops[r]), "MergingEnv") = 2

\* --------------------------------------------------------------------- C8

\* The states of the state-change events of a stream, in order.
StateChanges(evs) ==
    LET sc == SelectSeq(evs, LAMBDA e : e.type = "state-change")
    IN [i \in 1..Len(sc) |-> sc[i].message[2]]

\* C8: every stage the attempt enters is on the stream as a state-change
\* event, in the order the stages were entered.
TransitionsStreamed ==
    \A r \in Reqs : StateChanges(events[r]) = StagesOf(ops[r])

\* ------------------------------------- mergeEnvironmentFiles on its own

\* The texts of at most n lines drawn from pool, joined by sep.
Texts(pool, n, sep) ==
    {JoinLines(ls, sep) : ls \in UNION {[1..k -> pool] : k \in 0..n}}

MergeLines == {<<"A", "=", "1">>, <<"A", "=">>, <<"A", "=", "3">>,
               <<"B", "=", "2">>, <<"B", "=">>, <<"C", "=">>}

MergeFiles == {NoFile} \cup Texts(MergeLines, MaxMergeLines, <<NL>>)

ParseLines == {<<"A", "=", "1">>, <<"A", "=">>, <<"A", "=", "2">>,
               <<" ", "A", " ", "=", " ", "3", " ">>, <<"#", "A", "=", "9">>,
               <<"B", "=", "7", "=", "8">>, <<"A">>, <<>>,
               <<"v", "a", "l", "u", "e", "O", "f", "=", "1">>}

ParseFiles == Texts(ParseLines, MaxLines, <<NL>>) \cup Texts(ParseLines, MaxLines, <<CR, NL>>)

\* The directory mergeEnvironmentFiles is run in.
MergeRepo == "foloup"

\* A host where nothing runs: a root file, and a clone holding a .env and
\* what earlier calls may have left at outputPath and at tempFile.
InitFiles(rootFiles, localFiles, staleFiles) ==
    /\ catalog = SOLUTION_CONFIGS
    /\ rootEnv \in rootFiles
    /\ \E local \in localFiles, out \in staleFiles, temp \in staleFiles :
         repos = [n \in RepoNames |->
                    IF n = MergeRepo
                    THEN [NoRepo EXCEPT !.exists = TRUE, !.f[".env"] = local,
                                        !.f[TempEnvPath] = out, !.f[TempFile] = temp]
                    ELSE NoRepo]
    /\ composeV1 = FALSE
    /\ composeV2 = FALSE
    /\ containers = [n \in ContainerNames |-> "absent"]
    /\ images = {}
    /\ pc = [r \in Reqs |-> "idle"]
    /\ query = [r \in Reqs |-> ""]
    /\ invoked = [r \in Reqs |-> FALSE]
    /\ events = [r \in Reqs |-> <<>>]
    /\ ended = [r \in Reqs |-> 0]
    /\ ops = [r \in Reqs |-> <<>>]
    /\ err = [r \in Reqs |-> NoError]
    /\ result = [r \in Reqs |-> NoResult]
    /\ structure = [r \in Reqs |-> NoStructure]
    /\ portIdx = [r \in Reqs |-> 0]
    /\ children = [r \in Reqs |-> {}]
    /\ rootVars = <<>>
    /\ localVars = <<>>
    /\ mergedVars = <<>>
    /\ outputs = <<>>
    /\ io = "none"

InitMerge == InitFiles(MergeFiles, MergeFiles, {NoFile})

InitParse == InitFiles({NoFile}, ParseFiles, {NoFile})

\* One call mergeEnvironmentFiles('/workspace/.env', `${repoPath}/.env`,
\* `${repoPath}/.env.temp`) that returns.
MergeEnvironmentFiles ==
    /\ outputs = <<>>
    /\ rootVars' = ParseEnvFile(rootEnv)
    /\ localVars' = ParseEnvFile(repos[MergeRepo].f[".env"])
    /\ mergedVars' = MergeVars(rootVars', localVars')
    /\ repos' = [repos EXCEPT ![MergeRepo] =
                    RenameSync(WriteFileSync(@, TempFile, Serialize(mergedVars')),
                               TempFile, TempEnvPath)]
    /\ outputs' = <<Output(repos[MergeRepo].f[TempEnvPath], Serialize(mergedVars'))>>
    /\ UNCHANGED <<catalog, rootEnv, composeV1, composeV2, containers, images, reqVars, io>>

NextMerge == MergeEnvironmentFiles

SpecMerge == InitMerge /\ [][NextMerge]_vars

SpecParse == InitParse /\ [][NextMerge]_vars

\* The call of mergeEnvironmentFiles has returned.
Merged == outputs # <<>>

\* --------------------------------------------------------------------- C9

\* What the claim gives key k: the local value when it is not empty, else
\* the root value when it is not empty, else the empty string.
ClaimedValue(rv, lv, k) ==
    IF HasKey(lv, k) /\ Get(lv, k) # <<>> THEN Get(lv, k)
    ELSE IF HasKey(rv, k) /\ Get(rv, k) # <<>> THEN Get(rv, k)
    ELSE <<>>

\* C9: for every pair of parsed mappings root and local, the merged mapping
\* has exactly the keys of root and of local, each once, and gives each key
\* its non-empty local value, else its non-empty root value, else "".
MergePrecedence ==
    Merged =>
        /\ \A i, j \in 1..Len(mergedVars) : mergedVars[i].k = mergedVars[j].k => i = j
        /\ Keys(mergedVars) = Keys(rootVars) \cup Keys(localVars)
        /\ \A k \in Keys(mergedVars) :
              Get(mergedVars, k) = ClaimedValue(rootVars, localVars, k)

Entry(key, value) == [k |-> key, v |-> value]

\* The scenario of the claim: root {A=1, B=}, local {B=2, C=} merged to
\* {A=1, B=2, C=}.
MergeScenario ==
    /\ Merged
    /\ rootVars = <<Entry(<<"A">>, <<"1">>), Entry(<<"B">>, <<>>)>>
    /\ localVars = <<Entry(<<"B">>, <<"2">>), Entry(<<"C">>, <<>>)>>
    /\ mergedVars = <<Entry(<<"A">>, <<"1">>), Entry(<<"B">>, <<"2">>),
                      Entry(<<"C">>, <<>>)>>

\* -------------------------------------------------------------------- C10

\* The key/value pairs of the lines parseEnvFile keeps, in line order.
Occurrences(text) ==
    LET lines == SplitLines(text)
        kept == SelectSeq([i \in 1..Len(lines) |-> Trim(lines[i])], IsEntryLine)
    IN [i \in 1..Len(kept) |-> Entry(LineKey(kept[i]), LineValue(kept[i]))]

\* The first non-empty value among the occurrences of key, "" when every
\* occurrence is empty.
FirstNonEmpty(occ, key) ==
    LET hits == {i \in 1..Len(occ) : occ[i].k = key /\ occ[i].v # <<>>}
    IN IF hits = {} THEN <<>>
       ELSE occ[CHOOSE i \in hits : \A j \in hits : i <= j].v

\* C10: parsing a file keeps, for every key that occurs in it, the first
\* non-empty value in line order, and the empty value when every occurrence
\* is empty.
ParseKeepsFirstNonEmpty ==
    Merged =>
        LET occ == Occurrences(repos[MergeRepo].f[".env"])
        IN /\ Keys(localVars) = {occ[i].k : i \in 1..Len(occ)}
           /\ \A k \in Keys(localVars) : Get(localVars, k) = FirstNonEmpty(occ, k)

\* The same for the keys that are not names of inherited members: `key in
\* acc` holds from the start for an inherited name, so such a key is never
\* stored.
ParseKeepsFirstNonEmptyOfPlainKeys ==
    Merged =>
        LET occ == Occurrences(repos[MergeRepo].f[".env"])
        IN /\ Keys(localVars) = {occ[i].k : i \in 1..Len(occ)} \ InheritedNames
           /\ \A k \in Keys(localVars) : Get(localVars, k) = FirstNonEmpty(occ, k)

\* A file where key A occurs empty, then with 1, then with 2 has been parsed
\* and A is 1.
ParseRepeatedKey ==
    /\ Merged
    /\ repos[MergeRepo].f[".env"] =
          <<"A", "=", "\n", "A", "=", "1", "\n", "A", "=", "2">>
    /\ localVars = <<Entry(<<"A">>, <<"1">>)>>

\* ------------------------- the merge and its delivery, call by call

\* Calls of mergeEnvironmentFiles that one attempt makes at most: one of
\* installDockerComposeService and one of the installDockerService it falls
\* back to.
MaxRuns == 2

StaleText == <<"X", "=", "9">>

\* What an earlier call, or an interrupted one, may have left behind.
StaleFiles == {NoFile, StaleText}

DeliverFiles == {NoFile, RootText, TemplateText}

InitDeliver ==
    InitFiles(DeliverFiles, DeliverFiles, StaleFiles)

\* mergeEnvironmentFiles up to the open of writeFileSync(tempFile, ...): both
\* files are parsed and merged, tempFile is opened.  A second call follows
\* the first where installDockerComposeService falls back.
MergeOpenTemp ==
    /\ io = "none" \/ (io = "renamed" /\ Len(outputs) < MaxRuns)
    /\ rootVars' = ParseEnvFile(rootEnv)
    /\ localVars' = ParseEnvFile(repos[MergeRepo].f[".env"])
    /\ mergedVars' = MergeVars(rootVars', localVars')
    /\ repos' = [repos EXCEPT ![MergeRepo] = OpenTruncating(@, TempFile)]
    /\ io' = "opened"
    /\ UNCHANGED <<catalog, rootEnv, composeV1, composeV2, containers, images, reqVars,
                   outputs>>

\* writeFileSync(tempFile, envContent): the write.
MergeWriteTemp ==
    /\ io = "opened"
    /\ repos' = [repos EXCEPT ![MergeRepo] = WriteData(@, TempFile, Serialize(mergedVars))]
    /\ io' = "written"
    /\ UNCHANGED <<catalog, rootEnv, composeV1, composeV2, containers, images, reqVars,
                   rootVars, localVars, mergedVars, outputs>>

\* renameSync(tempFile, outputPath), and the call returns.
MergeRenameTemp ==
    /\ io = "written"
    /\ repos' = [repos EXCEPT ![MergeRepo] = RenameSync(@, TempFile, TempEnvPath)]
    /\ outputs' = Append(outputs, Output(repos[MergeRepo].f[TempEnvPath],
                                         repos[MergeRepo].f[TempFile]))
    /\ io' = "renamed"
    /\ UNCHANGED <<catalog, rootEnv, composeV1, composeV2, containers, images, reqVars,
                   rootVars, localVars, mergedVars>>

\* cp ${tempEnvPath} ${localEnvPath}: cp opens the destination.
CopyOpen ==
    /\ io = "renamed"
    /\ repos' = [repos EXCEPT ![MergeRepo] = OpenTruncating(@, ".env")]
    /\ io' = "copying"
    /\ UNCHANGED <<catalog, rootEnv, composeV1, composeV2, containers, images, reqVars,
                   rootVars, localVars, mergedVars, outputs>>

\* cp ${tempEnvPath} ${localEnvPath}: cp writes what it read, and exits.
CopyWrite ==
    /\ io = "copying"
    /\ repos' = [repos EXCEPT ![MergeRepo] =
                    WriteData(@, ".env", repos[MergeRepo].f[TempEnvPath])]
    /\ io' = "delivered"
    /\ UNCHANGED <<catalog, rootEnv, composeV1, composeV2, containers, images, reqVars,
                   rootVars, localVars, mergedVars, outputs>>

NextDeliver ==
    \/ MergeOpenTemp
    \/ MergeWriteTemp
    \/ MergeRenameTemp
    \/ CopyOpen
    \/ CopyWrite

SpecDeliver == InitDeliver /\ [][NextDeliver]_vars

\* -------------------------------------------------------------------- C11

\* C11: the calls of mergeEnvironmentFiles on the same root file and the
\* same local file leave the same text at outputPath, and that text is the
\* serialized merge of the two files: it depends neither on an earlier call
\* nor on what outputPath or tempFile held before.
MergeDeterministic ==
    /\ \A i, j \in 1..Len(outputs) : outputs[i].after = outputs[j].after
    /\ io = "renamed" =>
         /\ repos[MergeRepo].f[TempEnvPath] = Last(outputs).after
         /\ Last(outputs).after =
               Serialize(MergeVars(ParseEnvFile(rootEnv),
                                   ParseEnvFile(repos[MergeRepo].f[".env"])))

\* Two calls have returned: the first found a stale file at outputPath, the
\* second the output of the first, and they wrote a text of several lines.
MergedTwiceOverStale ==
    /\ Len(outputs) = 2
    /\ outputs[1].before = StaleText
    /\ outputs[2].before = outputs[1].after
    /\ \E k \in 1..Len(outputs[2].after) : outputs[2].after[k] = NL

\* -------------------------------------------------------------------- C12

\* C12: mergeEnvironmentFiles returns whichever of the root file and the
\* local file is missing; a missing file counts as the empty mapping, so the
\* merged mapping is the parse of the other file (the empty mapping when both
\* are missing), and its serialization is written to outputPath.
MissingFileIsEmptyMapping ==
    LET root == rootEnv
        local == repos[MergeRepo].f[".env"]
    IN Merged =>
          /\ root = NoFile => rootVars = <<>> /\ mergedVars = ParseEnvFile(local)
          /\ local = NoFile => localVars = <<>> /\ mergedVars = ParseEnvFile(root)
          /\ (root = NoFile /\ local = NoFile) => mergedVars = <<>>
          /\ (root = NoFile \/ local = NoFile) =>
                /\ repos[MergeRepo].f[TempEnvPath] # NoFile
                /\ repos[MergeRepo].f[TempEnvPath] = Serialize(mergedVars)

\* The call has returned where the root file is missing and the local file
\* gives B a value and C none.
MergedWithoutRoot ==
    /\ Merged
    /\ rootEnv = NoFile
    /\ localVars = <<Entry(<<"B">>, <<"2">>), Entry(<<"C">>, <<>>)>>
    /\ repos[MergeRepo].f[TempEnvPath] = <<"B", "=", "2", "\n", "C", "=">>

\* -------------------------------------------------------------------- C13

\* A step replaces the file at path atomically: it leaves the file as it
\* was, or leaves the complete serialized merge there.
ReplacedAtomically(path) ==
    \/ repos'[MergeRepo].f[path] = repos[MergeRepo].f[path]
    \/ repos'[MergeRepo].f[path] = Serialize(mergedVars')

\* C13: the merged environment reaches `.env`, the path it is delivered to,
\* atomically: at every step of the merge and of the copy a reader of `.env`
\* finds what it held before or the complete merged content; the content is
\* written to tempFile first and renamed to outputPath.
EnvDeliveredAtomically ==
    [][/\ ReplacedAtomically(".env")
       /\ ReplacedAtomically(TempEnvPath)
       /\ io' = "renamed" => io = "written"]_vars

\* The same for outputPath alone: writeFileSync to tempFile, then renameSync.
OutputPathReplacedAtomically ==
    [][/\ ReplacedAtomically(TempEnvPath)
       /\ io' = "renamed" => /\ io = "written"
                             /\ repos[MergeRepo].f[TempFile] = Serialize(mergedVars)]_vars

\* -------------------------------------------------------------------- C14

\* The attempt of r has run operation name.
Ran(r, name) == \E i \in 1..Len(ops[r]) : ops[r][i].op = name

\* The solution-local template of the clone of r: the file named by envFile.
Template(r) ==
    IF Config(r).envFile \in EnvFileNames THEN Repo(r).f[Config(r).envFile] ELSE NoFile

\* C14: after a single-container install has succeeded, `.env` of the clone
\* holds exactly the content of the solution-local template, and the merge
\* scratch file is gone.
SingleInstallRestoresTemplate ==
    \A r \in Reqs :
        (Succeeded(r) /\ Ran(r, "docker run")) =>
            /\ Repo(r).f[".env"] = Template(r)
            /\ Repo(r).f[TempEnvPath] = NoFile
            /\ Repo(r).f[TempFile] = NoFile

\* The same where the clone has the template.
SingleInstallRestoresExistingTemplate ==
    \A r \in Reqs :
        (Succeeded(r) /\ Ran(r, "docker run") /\ Template(r) # NoFile) =>
            /\ Repo(r).f[".env"] = Template(r)
            /\ Repo(r).f[TempEnvPath] = NoFile
            /\ Repo(r).f[TempFile] = NoFile

\* A single-container install has succeeded on a clone without the template,
\* and `.env` holds the content of the root file.
RootLeftInEnv ==
    \E r \in Reqs :
        /\ Succeeded(r)
        /\ Ran(r, "docker run")
        /\ Template(r) = NoFile
        /\ Repo(r).f[".env"] = Serialize(ParseEnvFile(RootText))

\* -------------------------------------------------------------------- C15

\* The root file combined with the template of the clone of r, serialized.
MergedEnvironment(r) ==
    Serialize(MergeVars(ParseEnvFile(rootEnv), ParseEnvFile(Template(r))))

\* C15: after a composed install has succeeded by `docker-compose up`, `.env`
\* of the clone holds exactly the merged environment, the root file combined
\* with the template, as the merge wrote it; it is not put back to the
\* template, and the merge scratch file is gone.
ComposedInstallKeepsMerged ==
    \A r \in Reqs :
        (Succeeded(r) /\ Ran(r, "docker-compose up")) =>
            /\ Repo(r).f[".env"] = MergedEnvironment(r)
            /\ Repo(r).f[".env"] = Last(outputs).after
            /\ ~Ran(r, "docker run")
            /\ Repo(r).f[TempEnvPath] = NoFile
            /\ Repo(r).f[TempFile] = NoFile

\* A composed install has succeeded where root file and template both exist,
\* and `.env` holds their merge, which is not the template.
ComposedKeptMerged ==
    \E r \in Reqs :
        /\ Succeeded(r)
        /\ Ran(r, "docker-compose up")
        /\ rootEnv = RootText
        /\ Template(r) = TemplateText
        /\ Repo(r).f[".env"] = <<"A", "=", "1", "\n", "B", "=", "2", "\n",
                                 "D", "=", "4", "\n", "C", "=">>

\* -------------------------------------------------------------------- C16

\* C16: from the end of the clone on, no step of the attempt, on any install
\* path, changes the template, the file of the clone named by envFile.
TemplateNeverChanges ==
    [][\A r \in Reqs :
          pc[r] \notin {"idle", "rm_repo", "clone"} => Template(r)' = Template(r)]_vars

\* A single-container install has run to its end, restore and scratch
\* deletion included, on a clone that has the template, after a composed
\* install fell back to it.
RestoredAfterFallback ==
    \E r \in Reqs :
        /\ Succeeded(r)
        /\ Ran(r, "detectRepoStructure")
        /\ Ran(r, "docker run")
        /\ rootEnv = RootText
        /\ Template(r) = TemplateText
        /\ Repo(r).f[".env"] = TemplateText

\* -------------------------------------------------------------------- C17

CleanupOps == {"docker rm -f", "docker stop"}

InstallEntries == {"ds_materialize", "ds_merge", "dc_materialize"}

\* C17: no outcome of a cleanup command fails the attempt: the error of the
\* attempt is never that of a cleanup command, and once the last cleanup
\* command has ended the attempt is at the cleanup loop or at the install
\* step of installWithProgress, which calls an install function or rejects
\* the installType.
CleanupNeverFails ==
    \A r \in Reqs :
        /\ err[r] # NoError => err[r][2] \notin CleanupOps
        /\ (ops[r] # <<>> /\ Last(ops[r]).op \in CleanupOps) =>
              \/ pc[r] = "cleanup_port" /\ ~RunCommandRejects(Last(ops[r]).out)
              \/ pc[r] \in InstallEntries
              \/ /\ Failed(r)
                 /\ err[r] = <<"Unsupported installation type: ", Config(r).installType>>

\* An attempt has succeeded although a cleanup command could not be started.
SucceededAfterFailedCleanup ==
    \E r \in Reqs :
        /\ Succeeded(r)
        /\ \E i \in 1..Len(ops[r]) : ops[r][i] = Op("docker stop", "spawnerr")

\* ------------------------------------- cleanupExistingContainers on its own

\* Calls of cleanupExistingContainers made in a row.
MaxCleanups == 2

\* A container of another solution, which publishes none of the additional
\* ports of any entry but its own.
OtherStack(id) == IF id = "ai-recruiter" THEN "ai-doc-editor" ELSE "foloup"

\* The host right after a clone: the named container of the solution, its
\* composition and a composition of another solution may be there from an
\* earlier install.
InitCleanup ==
    /\ catalog = SOLUTION_CONFIGS
    /\ rootEnv = RootText
    /\ composeV1 = TRUE
    /\ composeV2 = FALSE
    /\ images = {}
    /\ \E id \in CatalogIds :
         LET cfg == SOLUTION_CONFIGS[id]
         IN /\ query = [r \in Reqs |-> id]
            /\ repos = [n \in RepoNames |->
                          IF n = cfg.repoName
                          THEN Cloned("r1", cfg, {"docker-compose.yml"}, TemplateText)
                          ELSE NoRepo]
            /\ \E named \in {"absent", "created", "exited", "up"},
                  stack \in {"absent", "up"}, other \in {"absent", "up"} :
                 containers = [n \in ContainerNames |->
                                 IF n = cfg.containerName THEN named
                                 ELSE IF n = cfg.repoName THEN stack
                                 ELSE IF n = OtherStack(id) THEN other
                                 ELSE "absent"]
    /\ pc = [r \in Reqs |-> "cleanup_rm"]
    /\ invoked = [r \in Reqs |-> TRUE]
    /\ events = [r \in Reqs |-> <<ConnectedEvent>>]
    /\ ended = [r \in Reqs |-> 0]
    /\ ops = [r \in Reqs |-> <<Op("rm -rf", "ok"), Op("git clone", "ok")>>]
    /\ err = [r \in Reqs |-> NoError]
    /\ result = [r \in Reqs |-> NoResult]
    /\ structure = [r \in Reqs |-> NoStructure]
    /\ portIdx = [r \in Reqs |-> 0]
    /\ children = [r \in Reqs |-> {"cleanup_rm"}]
    /\ rootVars = <<>>
    /\ localVars = <<>>
    /\ mergedVars = <<>>
    /\ outputs = <<>>
    /\ io = "none"

\* The calls of cleanupExistingContainers the attempt has made.
Cleanups(r) == Cardinality({i \in 1..Len(ops[r]) : ops[r][i].op = "docker rm -f"})

\* cleanupExistingContainers(config) is called again right after it returned.
CleanupAgain(r) ==
    /\ pc[r] \in {"ds_materialize", "ds_merge", "dc_materialize"}
    /\ Cleanups(r) < MaxCleanups
    /\ pc' = [pc EXCEPT ![r] = "cleanup_rm"]
    /\ children' = [children EXCEPT ![r] = Spawned({}, "cleanup_rm")]
    /\ UNCHANGED <<hostVars, mergeVars, query, invoked, events, ended, ops, err, result,
                   structure, portIdx>>

NextCleanup ==
    \E r \in Reqs :
        \/ CleanupMainContainer(r)
        \/ CleanupPort(r)
        \/ CleanupAgain(r)

SpecCleanup == InitCleanup /\ [][NextCleanup]_vars

\* -------------------------------------------------------------------- C18

\* The environment is clean for r: no container has the name containerName
\* and no running container publishes an additional port.
Clean(r) ==
    LET cfg == Config(r)
    IN /\ containers[cfg.containerName] = "absent"
       /\ \A i \in 1..Len(cfg.additionalPorts) : \A n \in ContainerNames :
             containers[n] = "up" => cfg.additionalPorts[i] \notin Publishes(n)

\* Every cleanup command of the attempt did its work.
AllWorked(r) ==
    \A i \in 1..Len(ops[r]) : ops[r][i].op \in CleanupOps => ops[r][i].out = "ok"

InCleanup(r) == pc[r] \in {"cleanup_rm", "cleanup_port"}

\* r is in a call of cleanupExistingContainers that follows a complete one.
InLaterCleanup(r) ==
    \/ pc[r] = "cleanup_rm" /\ Cleanups(r) >= 1
    \/ pc[r] = "cleanup_port" /\ Cleanups(r) >= 2

\* C18: on a clean environment no step of cleanupExistingContainers changes
\* a container or raises an error, whatever its commands do; and a call that
\* follows a call whose commands did their work changes nothing, so two
\* calls in a row leave the containers as one call does.
CleanupIdempotent ==
    [][\A r \in Reqs :
          /\ (InCleanup(r) /\ Clean(r)) =>
                /\ containers' = containers
                /\ err'[r] = NoError
                /\ pc'[r] # "done"
          /\ (InLaterCleanup(r) /\ AllWorked(r)) => containers' = containers]_vars

\* Two calls in a row have returned, every command did its work, and the
\* composition that published an additional port is stopped.
CleanedTwice ==
    \E r \in Reqs :
        /\ Cleanups(r) = 2
        /\ pc[r] = "dc_materialize"
        /\ AllWorked(r)
        /\ Clean(r)
        /\ containers[Config(r).repoName] = "exited"

\* -------------------------------------------------------------------- C19

HasCompose(repo) == \E i \in 1..Len(ComposeFiles) : ComposeFiles[i] \in repo.present

HasDockerfile(repo) == "Dockerfile" \in repo.present

\* The attempt of r has a clone and is past it.
PastClone(r) == Ran(r, "git clone") /\ pc[r] \notin {"clone", "cleanup_rm"} /\ Repo(r).exists

BothPrefersComposedWhenDeclared ==
    \A r \in Reqs :
        (PastClone(r) /\ HasCompose(Repo(r)) /\ HasDockerfile(Repo(r))
         /\ Config(r).installType = "docker-compose") =>
            /\ ~Ran(r, "docker build")
            /\ ~Ran(r, "docker run")
            /\ Succeeded(r) => Ran(r, "docker-compose up")

\* -------------------------------------------------------------------- C20

\* The commands that invoke, look for or install the compose tool.
ComposeOps == {"docker-compose up", "docker-compose --version",
               "docker compose version", "wget docker-compose"}

\* The entry of r declares a composed install and its clone has a Dockerfile
\* and no compose descriptor.
OnlyDockerfile(r) ==
    /\ PastClone(r)
    /\ Config(r).installType = "docker-compose"
    /\ HasDockerfile(Repo(r))
    /\ ~HasCompose(Repo(r))

Did(r, name) == \E i \in 1..Len(ops[r]) : ops[r][i] = Op(name, "ok")

SinglePath == {"ds_materialize", "ds_merge", "ds_cp", "ds_build", "ds_run",
               "ds_restore", "ds_rm_temp", "done"}

\* After detection the attempt is on the single-container path, it never
\* invokes the compose tool and it is not rejected for want of a Docker
\* configuration.
TakesSinglePath(r) ==
    /\ \A i \in 1..Len(ops[r]) : ops[r][i].op \notin ComposeOps
    /\ Ran(r, "detectRepoStructure") => pc[r] \in SinglePath
    /\ err[r] # <<"No Docker configuration found in repository", "">>
    /\ Succeeded(r) =>
          /\ Did(r, "docker build") /\ Did(r, "docker run")
          /\ Config(r).imageName \in images
          /\ containers[Config(r).containerName] = "up"

\* C20 as stated: a composed entry whose clone has only a Dockerfile takes
\* the single-container path, never invokes compose, and its attempt ends in
\* Succeeded if build and run succeeded.
FallbackSucceedsIfBuildAndRun ==
    \A r \in Reqs :
        OnlyDockerfile(r) =>
            /\ TakesSinglePath(r)
            /\ (pc[r] = "done" /\ Did(r, "docker build") /\ Did(r, "docker run")) =>
                  Succeeded(r)

\* C20, amended: the same, and the attempt ends in Succeeded if build, run,
\* the restore of the template and the deletion of the scratch file succeeded.
FallbackSucceedsIfAllSucceed ==
    \A r \in Reqs :
        OnlyDockerfile(r) =>
            /\ TakesSinglePath(r)
            /\ (pc[r] = "done" /\ Did(r, "docker build") /\ Did(r, "docker run")
                /\ Last(ops[r]) = Op("rm -f", "ok")) => Succeeded(r)
            /\ (pc[r] = "done" /\ Did(r, "docker run") /\ ~Succeeded(r)) =>
                  /\ Failed(r)
                  /\ Last(ops[r]).op \in {"find cp", "rm -f"}
                  /\ RunCommandRejects(Last(ops[r]).out)

\* A composed entry whose clone has only a Dockerfile has been installed as
\* a single container.
FallbackSucceeded ==
    \E r \in Reqs :
        /\ OnlyDockerfile(r)
        /\ Succeeded(r)
        /\ structure[r] = [hasDockerCompose |-> FALSE, hasDockerfile |-> TRUE,
                           composeFile |-> "null"]
        /\ containers[Config(r).containerName] = "up"

\* -------------------------------------------------------------------- C21

NoDockerConfiguration == <<"No Docker configuration found in repository", "">>

\* In the attempt of r the compose tool was absent from the host and
\* installDockerCompose failed to install it.
ToolInstallFailed(r) ==
    /\ ~composeV1
    /\ ~composeV2
    /\ \E i \in 1..Len(ops[r]) :
         ops[r][i].op = "wget docker-compose" /\ ops[r][i].out # "ok"

\* C21: in a composed install where the compose tool is absent and its
\* installation fails, the attempt goes on by the single-container path when
\* the clone has a Dockerfile, and reaches Succeeded if build and run succeed;
\* when the clone has no Dockerfile it fails with the no-deployment-descriptor
\* error.  In neither case is the compose command invoked.
ToolAbsentFallsBack ==
    \A r \in Reqs :
        ToolInstallFailed(r) =>
            /\ ~Ran(r, "docker-compose up")
            /\ pc[r] = "done" =>
                  IF HasDockerfile(Repo(r))
                  THEN (Did(r, "docker build") /\ Did(r, "docker run")) => Succeeded(r)
                  ELSE Failed(r) /\ err[r] = NoDockerConfiguration

\* What the code does there: compose-up is run all the same and fails.
ComposeUpRunWithoutTool ==
    \E r \in Reqs :
        /\ ToolInstallFailed(r)
        /\ HasDockerfile(Repo(r))
        /\ Failed(r)
        /\ err[r] = <<"Command failed: ", "docker-compose up">>

\* With the tool absent and not installed, no composed install succeeds.
ToolAbsentNeverSucceeds ==
    \A r \in Reqs : ToolInstallFailed(r) => ~Succeeded(r)

\* ------------------------------------------ an attempt and its retry

\* The first request for a solution, and the request a caller makes after
\* the first has failed.
Attempts == {"r1", "r2"}

RetryIds == {"ai-recruiter", "seo-content-gen"}

\* A host where nothing is installed, and requests not yet made.
InitRequests(reqs) ==
    /\ catalog = SOLUTION_CONFIGS
    /\ rootEnv = RootText
    /\ repos = [n \in RepoNames |-> NoRepo]
    /\ composeV1 \in BOOLEAN
    /\ composeV2 = FALSE
    /\ containers = [n \in ContainerNames |-> "absent"]
    /\ images = {}
    /\ pc = [r \in reqs |-> "idle"]
    /\ query = [r \in reqs |-> ""]
    /\ invoked = [r \in reqs |-> FALSE]
    /\ events = [r \in reqs |-> <<>>]
    /\ ended = [r \in reqs |-> 0]
    /\ ops = [r \in reqs |-> <<>>]
    /\ err = [r \in reqs |-> NoError]
    /\ result = [r \in reqs |-> NoResult]
    /\ structure = [r \in reqs |-> NoStructure]
    /\ portIdx = [r \in reqs |-> 0]
    /\ children = [r \in reqs |-> {}]
    /\ rootVars = <<>>
    /\ localVars = <<>>
    /\ mergedVars = <<>>
    /\ outputs = <<>>
    /\ io = "none"

InitRetry == InitRequests(Attempts)

\* The requests made: the first for a solution of RetryIds, the second for
\* the same solution once the first attempt has failed.
Requested(r) ==
    pc[r] = "idle" =>
        /\ query'[r] \in RetryIds
        /\ r = "r2" => Failed("r1") /\ query'[r] = query["r1"]

\* The repository cloned is the same in both attempts: it has the template
\* and one of these layouts.
RetryLayouts == {{"Dockerfile"}, {"docker-compose.yml", "Dockerfile"}}

\* What the attempts meet: the same repository, and in the first attempt
\* commands that start (they end with status zero or non-zero).
Met(r) ==
    /\ pc[r] = "clone" =>
          \/ repos' = repos
          \/ /\ Repo(r)'.present \in RetryLayouts
             /\ Repo(r)'.f[Config(r).envFile] = TemplateText
    /\ (r = "r1" /\ ops'[r] # ops[r]) => Last(ops'[r]).out # "spawnerr"

NextRetry == \E r \in Attempts : Step(r) /\ Requested(r) /\ Met(r)

SpecRetry == InitRetry /\ [][NextRetry]_vars

\* -------------------------------------------------------------------- C22

\* C22: leftovers of a failed attempt do not fail the retry.  The clone
\* directory is gone when the retry clones; the clone it works on holds
\* neither the `.env` nor the scratch file of the failed attempt; and when
\* the retry reaches the run step after a `docker rm -f` that did its work,
\* the container name is free and the image is there.
RetryIsSafe ==
    LET r == "r2"
    IN /\ pc[r] = "clone" => ~Repo(r).exists
       /\ pc[r] = "cleanup_rm" =>
             /\ Repo(r).f[".env"] = NoFile
             /\ Repo(r).f[TempEnvPath] = NoFile
       /\ (pc[r] = "ds_run" /\ Did(r, "docker rm -f")) =>
             /\ containers[Config(r).containerName] = "absent"
             /\ Config(r).imageName \in images
       /\ Failed(r) => \/ RunCommandRejects(Last(ops[r]).out)
                       \/ Last(ops[r]).out = "throw"
                       \/ err[r] = NoDockerConfiguration

\* The first attempt failed at the container start, having left a clone, a
\* merged `.env`, a scratch file and an image, and the retry has succeeded
\* by building and running the container.
RetrySucceeded ==
    /\ Failed("r1")
    /\ Last(ops["r1"]) = Op("docker run", "nonzero")
    /\ Succeeded("r2")
    /\ Did("r2", "docker run")

\* The retry is at its cleanup and the container the failed attempt created
\* is still there.
RetryFindsContainer ==
    /\ pc["r2"] = "cleanup_rm"
    /\ containers[Config("r2").containerName] = "created"
    /\ Config("r2").imageName \in images

\* ------------------------------------------------ checkInstallationHealth

\* The health query, next to the progress request r1.
Probes == {"h1"}

Installers == {"r1"}

\* The solutionType values health queries carry.
HealthQueries == {"", "ai-recruiter", "seo-content-gen", "no-such-solution"}

\* String.prototype.includes
Includes(s, sub) ==
    \E i \in 1..(Len(s) - Len(sub) + 1) : SubSeq(s, i, i + Len(sub) - 1) = sub

\* The command line of the child process request r awaits, "" where it
\* awaits none.
CommandLine(r) ==
    LET cfg == Config(r)
        repoPath == "/workspace/" \o cfg.repoName
    IN CASE pc[r] = "rm_repo" -> "rm -rf " \o repoPath
         [] pc[r] = "clone" -> "git clone " \o repoPath
         [] pc[r] = "cleanup_rm" -> "docker rm -f " \o cfg.containerName \o " || true"
         [] pc[r] = "cleanup_port" -> "docker ps -q --filter publish | xargs -r docker stop || true"
         [] pc[r] \in {"ds_materialize", "dc_materialize", "ds_restore"} ->
                "find " \o repoPath \o " -name " \o cfg.envFile
         [] pc[r] \in {"ds_cp", "dc_cp"} ->
                "cp " \o repoPath \o "/.env.temp " \o repoPath \o "/.env"
         [] pc[r] = "ds_build" -> "docker build -t " \o cfg.imageName \o " " \o repoPath
         [] pc[r] = "ds_run" -> "docker run -d --name " \o cfg.containerName
         [] pc[r] \in {"ds_rm_temp", "dc_rm_temp"} -> "rm -f " \o repoPath \o "/.env.temp"
         [] pc[r] = "dc_check_v1" -> "docker-compose --version"
         [] pc[r] = "dc_check_v2" -> "docker compose version"
         [] pc[r] = "dc_install" -> "wget -O /usr/local/bin/docker-compose"
         [] pc[r] = "dc_up" -> "cd " \o repoPath \o " && docker-compose up -d --build"
         [] OTHER -> ""

\* grep -E "(docker-compose|docker build)"
GrepMatches(line) == Includes(line, "docker-compose") \/ Includes(line, "docker build")

\* stdout of ps aux | grep -E "(docker-compose|docker build)" | grep -v grep:
\* the matching command lines of the processes on the host.
PsStdout == {CommandLine(r) : r \in {i \in Installers : GrepMatches(CommandLine(i))}}

\* stdout of docker ps --format "{{.Names}} {{.Status}}": the running
\* containers; a composition is listed under its project name, the prefix of
\* the names of its containers.
DockerPsNames == {n \in ContainerNames : containers[n] = "up"}

\* The test of containerLines.find on a line of a running container.
NameMatches(name, solutionType) ==
    \/ Includes(name, solutionType)
    \/ Includes(name, "foloup")
    \/ Includes(name, "ai-doc")
    \/ Includes(name, "landing-page")

\* Faulty variant: the callback goes on after res.json.
PsNextFallsThrough(busy) == "h_docker_ps"

\* `return res.json(...)` in the callback of the process check.
PsNext(busy) == IF busy THEN "done" ELSE "h_docker_ps"

\* One response on res: res.write + res.end, or res.json.
Respond(h, response) ==
    /\ events' = [events EXCEPT ![h] = Append(@, response)]
    /\ ended' = [ended EXCEPT ![h] = @ + 1]

\* checkInstallationHealth up to the exec of the process check.
CheckInstallationHealth(h) ==
    /\ pc[h] = "idle"
    /\ \E q \in HealthQueries :
        /\ query' = [query EXCEPT ![h] = q]
        /\ IF q = ""
           THEN /\ Respond(h, Event("error", <<"Solution type is required", "">>))
                /\ pc' = [pc EXCEPT ![h] = "done"]
           ELSE /\ pc' = [pc EXCEPT ![h] = "h_ps"]
                /\ UNCHANGED <<events, ended>>
    /\ UNCHANGED <<hostVars, mergeVars, invoked, ops, err, result, structure, portIdx,
                   children>>

\* The callback of the process check: stdout is empty when nothing matches
\* and when the command could not be run.
ProcessCheck(h) ==
    /\ pc[h] = "h_ps"
    /\ \E out \in {"ok", "spawnerr"} :
        LET stdout == IF out = "ok" THEN PsStdout ELSE {}
            busy == stdout # {}
        IN /\ ops' = [ops EXCEPT ![h] = Append(@, Op("ps aux", out))]
           /\ pc' = [pc EXCEPT ![h] = PsNext(busy)]
           /\ IF busy
              THEN Respond(h, Event("installing", <<"Installation in progress", "">>))
              ELSE UNCHANGED <<events, ended>>
    /\ UNCHANGED <<hostVars, mergeVars, query, invoked, err, result, structure, portIdx,
                   children>>

\* The callback of docker ps.
ContainerCheck(h) ==
    /\ pc[h] = "h_docker_ps"
    /\ \E out \in Outcomes :
        LET matches == {n \in DockerPsNames : NameMatches(n, query[h])}
        IN /\ ops' = [ops EXCEPT ![h] = Append(@, Op("docker ps", out))]
           /\ pc' = [pc EXCEPT ![h] = "done"]
           /\ IF out # "ok"
              THEN Respond(h, Event("not_running", <<"Docker not available", "">>))
              ELSE IF matches # {}
              THEN \E n \in matches : Respond(h, Event("running", <<n, " Up">>))
              ELSE Respond(h, Event("not_running",
                                    <<"Container not found or not running", "">>))
    /\ UNCHANGED <<hostVars, mergeVars, query, invoked, err, result, structure, portIdx,
                   children>>

HealthStep(h) ==
    \/ CheckInstallationHealth(h)
    \/ ProcessCheck(h)
    \/ ContainerCheck(h)

InitHealth == InitRequests(Installers \cup Probes)

\* A progress request for a solution of RetryIds and a health query, in any
\* interleaving.
NextHealth ==
    \/ \E r \in Installers : Step(r) /\ Requested(r) /\ Met(r)
    \/ \E h \in Probes : HealthStep(h)

SpecHealth == InitHealth /\ [][NextHealth]_vars

\* The last response health query h has received has this status.
Reported(h, status) == events[h] # <<>> /\ Last(events[h]).type = status

\* A process of the attempt for solution S that the process check looks for
\* is running.
BuildActiveFor(S) ==
    \E r \in Installers : query[r] = S /\ GrepMatches(CommandLine(r))

\* C23: when the listing of processes has worked, probe(S) reports
\* Installing if and only if a build or compose process of the attempt for S
\* is running when it looks; a process of the attempt for another solution
\* does not make it report Installing.
InstallingIffOwnBuild ==
    [][\A h \in Probes :
          (/\ pc[h] = "h_ps"
           /\ pc'[h] # "h_ps"
           /\ Last(ops'[h]) = Op("ps aux", "ok")) =>
              (Reported(h, "installing")' <=> BuildActiveFor(query[h]))]_vars

\* What the process check does: it reports Installing only while some
\* attempt, for whichever solution, runs a matching process.
InstallingOnlyIfSomeBuild ==
    [][\A h \in Probes :
          (pc[h] = "h_ps" /\ pc'[h] # "h_ps" /\ Reported(h, "installing")') =>
              \E r \in Installers : GrepMatches(CommandLine(r))]_vars

\* A query for one solution was answered Installing while the only attempt
\* was for another solution.
InstallingForOtherSolution ==
    \E h \in Probes :
        /\ Reported(h, "installing")
        /\ \A r \in Installers : pc[r] # "idle" /\ query[r] # query[h]

\* Running container n belongs to solution S: its name contains the
\* identifier of S, or it is the container or the composition of the entry
\* of S (foloup for ai-recruiter, and so on).
Belongs(n, S) ==
    \/ Includes(n, S)
    \/ /\ S \in CatalogIds
       /\ n \in {SOLUTION_CONFIGS[S].containerName, SOLUTION_CONFIGS[S].repoName}

\* C24: when the listing of containers has worked, probe(S) reports Running
\* only if a container that belongs to S is up, and NotRunning if none is;
\* an up container of another solution never makes it report Running.
RunningOnlyIfOwnContainer ==
    [][\A h \in Probes :
          (/\ pc[h] = "h_docker_ps"
           /\ pc'[h] = "done"
           /\ Last(ops'[h]) = Op("docker ps", "ok")) =>
              (Reported(h, "running")' <=>
                  \E n \in DockerPsNames : Belongs(n, query[h]))]_vars

\* What the container check does: it reports Running only if some container
\* is up.
RunningOnlyIfSomeContainer ==
    [][\A h \in Probes :
          (pc[h] = "h_docker_ps" /\ pc'[h] = "done" /\ Reported(h, "running")') =>
              DockerPsNames # {}]_vars

\* A query for one solution was answered Running with the container of
\* another solution.
RunningForOtherSolution ==
    \E h \in Probes :
        /\ Reported(h, "running")
        /\ ~Belongs(Last(events[h]).message[1], query[h])

HealthStatuses == {"installing", "running", "not_running", "error"}

\* C25: a health query receives exactly one response, of status installing,
\* running (with the container), not_running or error (with a message): no
\* second response is ever sent, the handler has ended exactly when the one
\* response has been sent, and a query without solutionType is answered with
\* the error.
ExactlyOneResponse ==
    \A h \in Probes :
        /\ Len(events[h]) <= 1
        /\ ended[h] = Len(events[h])
        /\ pc[h] = "done" <=> Len(events[h]) = 1
        /\ events[h] # <<>> =>
              /\ events[h][1].type \in HealthStatuses
              /\ events[h][1].type = "running" =>
                    events[h][1].message[1] \in ContainerNames
              /\ events[h][1].type = "error" <=> query[h] = ""
              /\ events[h][1].message # <<"", "">>

\* A query made during a build was answered installing, and the handler
\* ended there.
AnsweredInstallingOnce ==
    \E h \in Probes :
        /\ pc[h] = "done"
        /\ events[h] = <<Event("installing", <<"Installation in progress", "">>)>>
        /\ Last(ops[h]) = Op("ps aux", "ok")

\* ---------------------------------------------------------- termination

\* Every command a request awaits ends, and the event loop then runs the
\* continuation of the request: a request that has started does not stay
\* suspended for ever.
Fairness == \A r \in Reqs : WF_vars(Step(r) /\ pc[r] # "idle")

\* The catalog as written, and with the entry of ai-recruiter declaring a
\* single-container install or an unsupported one.
FairCatalogs ==
    {SOLUTION_CONFIGS} \cup
    {[SOLUTION_CONFIGS EXCEPT !["ai-recruiter"].installType = t] :
        t \in {"docker", "kubernetes"}}

InitFair == Init /\ catalog \in FairCatalogs /\ rootEnv = RootText /\ ~composeV2

SpecFair == InitFair /\ [][Next]_vars /\ Fairness

\* C26: every attempt that has started ends in Succeeded or in Failed, with
\* the response of its request ended once.
AttemptEnds ==
    \A r \in Reqs :
        invoked[r] ~> ((Succeeded(r) \/ Failed(r)) /\ ended[r] = 1)

\* An attempt has ended in Failed after its clone, and its response is ended.
ClosedAfterFailedInstall ==
    \E r \in Reqs :
        /\ Failed(r)
        /\ ended[r] = 1
        /\ Did(r, "git clone")
        /\ Last(events[r]).type = "error"

\* ------------------------------------------------- failures of the install

BuildFailed == <<"Command failed: ", "docker build">>

\* C27: in a single-container install a build that exits non-zero ends the
\* attempt in Failed with the error of the build, and `docker run` is never
\* invoked; a start that fails after a build that worked ends the attempt in
\* Failed with an error other than that of the build.
SingleInstallFailures ==
    \A r \in Reqs :
        \A i \in 1..Len(ops[r]) :
            /\ ops[r][i] = Op("docker build", "nonzero") =>
                  /\ i = Len(ops[r])
                  /\ Failed(r)
                  /\ err[r] = BuildFailed
                  /\ ~Ran(r, "docker run")
            /\ (ops[r][i].op = "docker run" /\ ops[r][i].out # "ok") =>
                  /\ i = Len(ops[r])
                  /\ Failed(r)
                  /\ Did(r, "docker build")
                  /\ err[r] # BuildFailed
                  /\ err[r] \in {<<"Command failed: ", "docker run">>,
                                 <<"spawn sh ", "ENOENT">>}

\* The start of the container has failed on an image that was built.
StartFailedAfterBuild ==
    \E r \in Reqs :
        /\ Failed(r)
        /\ Ran(r, "docker run")
        /\ Last(ops[r]) = Op("docker run", "nonzero")
        /\ Did(r, "docker build")
        /\ Config(r).imageName \in images
        /\ err[r] = <<"Command failed: ", "docker run">>

\* The entry of r declares a composed install and its clone has neither a
\* compose descriptor nor a Dockerfile.
NoDescriptor(r) ==
    /\ PastClone(r)
    /\ Config(r).installType = "docker-compose"
    /\ ~HasCompose(Repo(r))
    /\ ~HasDockerfile(Repo(r))

DeployOps == {"docker build", "docker run", "docker-compose up"}

\* C28: a composed-declared attempt whose clone has neither a compose
\* descriptor nor a Dockerfile never executes a build, a run or a compose-up,
\* and never succeeds: it ends in Failed, and once the structure has been
\* detected it has ended with the no-Docker-configuration error.
NoDescriptorFails ==
    \A r \in Reqs :
        NoDescriptor(r) =>
            /\ \A i \in 1..Len(ops[r]) : ops[r][i].op \notin DeployOps
            /\ ~Succeeded(r)
            /\ pc[r] = "done" => Failed(r)
            /\ Ran(r, "detectRepoStructure") =>
                  /\ Failed(r)
                  /\ err[r] = NoDockerConfiguration
                  /\ Last(ops[r]).op = "detectRepoStructure"

\* The attempt was rejected for want of a Docker configuration.
RejectedWithoutDescriptor ==
    \E r \in Reqs :
        /\ NoDescriptor(r)
        /\ Failed(r)
        /\ err[r] = NoDockerConfiguration
        /\ structure[r] = NoStructure
        /\ Did(r, "mergeEnvironmentFiles")

\* The commands whose failure the code catches or masks: those of the
\* cleanup, the two availability checks and the installation of the tool.
Swallowed == CleanupOps \cup {"docker-compose --version", "docker compose version",
                              "wget docker-compose"}

OnceOps == {"git clone", "docker build", "docker run", "docker-compose up"}

Times(r, name) == Cardinality({i \in 1..Len(ops[r]) : ops[r][i].op = name})

\* C29: within one attempt the clone, the image build, the container run and
\* the compose-up are each executed at most once, and a failed operation
\* other than a swallowed one is the last operation of the attempt, which
\* has then ended in Failed.
NeverRetries ==
    \A r \in Reqs :
        /\ \A name \in OnceOps : Times(r, name) <= 1
        /\ \A i \in 1..Len(ops[r]) :
              (ops[r][i].out \notin {"ok", "masked"} /\ ops[r][i].op \notin Swallowed) =>
                  /\ i = Len(ops[r])
                  /\ Failed(r)

\* The compose-up has failed after swallowed failures of the cleanup and of
\* the availability check, and nothing was executed after it.
FailedAtComposeUpOnce ==
    \E r \in Reqs :
        /\ Failed(r)
        /\ Ran(r, "docker-compose up")
        /\ Last(ops[r]) = Op("docker-compose up", "nonzero")
        /\ Times(r, "docker-compose up") = 1
        /\ \E i \in 1..Len(ops[r]) :
              ops[r][i].op \in Swallowed /\ ops[r][i].out \notin {"ok", "masked"}

\* ------------------------------------------------------- one at a time

\* C30: within one attempt at most one command is in flight at any time, and
\* it is the one the handler awaits: every command spawned before it has
\* closed, with its outcome in the log of the attempt.
OneCommandAtATime ==
    \A r \in Reqs :
        /\ Cardinality(children[r]) <= 1
        /\ children[r] = IF pc[r] \in NoChild THEN {} ELSE {pc[r]}
        /\ pc[r] = "ds_run" => Ran(r, "docker build")
        /\ pc[r] = "clone" => Ran(r, "rm -rf")

\* The container is being started, alone, after the build has ended.
RunAloneAfterBuild ==
    \E r \in Reqs :
        /\ children[r] = {"ds_run"}
        /\ Did(r, "docker build")
        /\ Last(ops[r]) = Op("docker build", "ok")

\* ------------------------------------------------ two concurrent attempts

\* Two progress requests whose handlers interleave at their awaits.
Pair == {"r1", "r2"}

PairIds == {"ai-recruiter", "seo-content-gen"}

InitPair == InitRequests(Pair)

\* The requests are for solutions of PairIds, the same one or not.
Asked(r) == pc[r] = "idle" => query'[r] \in PairIds

\* What the attempts meet: a repository with the template and a Dockerfile,
\* with or without a compose descriptor, and commands that start and whose
\* failure is not masked.
MetPair(r) ==
    /\ pc[r] = "clone" =>
          \/ repos' = repos
          \/ /\ Repo(r)'.present \in RetryLayouts
             /\ Repo(r)'.f[Config(r).envFile] = TemplateText
    /\ ops'[r] # ops[r] => Last(ops'[r]).out \in {"ok", "nonzero"}

NextPair == \E r \in Pair : Step(r) /\ Asked(r) /\ MetPair(r)

SpecPair == InitPair /\ [][NextPair]_vars

\* The handler of request r takes the step.
Steps(r) == pc'[r] # pc[r] \/ ops'[r] # ops[r]

\* What belongs to the solution of request o: its clone directory with `.env`
\* and the scratch file in it, its named container, its composition and
\* whether its image is there.
Owned(o) ==
    <<Repo(o), containers[Config(o).containerName], containers[Config(o).repoName],
      Config(o).imageName \in images>>

\* C31: of two attempts for different catalog solutions, no step of one
\* changes the clone directory, the `.env` or the scratch file of the other,
\* nor the state of its container or of its composition, nor its image; and
\* no attempt ever works in a directory the other attempt cloned.
DifferentSolutionsIndependent ==
    [][\A r \in Pair, o \in Pair :
          (/\ Steps(r)
           /\ pc[o] # "idle"
           /\ query[o] # query'[r]) =>
              /\ Owned(o)' = Owned(o)
              /\ Repo(r)'.by \in {"none", r}]_vars

\* Attempts for different solutions are under way side by side, one at its
\* compose-up and one at its image build, each in the directory it cloned.
BothUnderWay ==
    /\ query["r1"] # query["r2"]
    /\ pc["r1"] = "dc_up"
    /\ pc["r2"] = "ds_build"
    /\ \A r \in Pair : Repo(r).by = r /\ Repo(r).f[".env"] # NoFile

\* The attempt of r is between its clone and its terminal state.
InInstall(r) == Did(r, "git clone") /\ pc[r] # "done"

\* C32: two attempts for the same solution are not excluded from each other:
\* when one of them runs its `rm -rf` while the other is between its clone
\* and its terminal state, the directory is removed under the other, which is
\* neither stopped nor told.
SameSolutionNotExcluded ==
    [][\A r \in Pair, o \in Pair :
          (/\ pc[o] = "rm_repo"
           /\ pc'[o] = "clone"
           /\ r # o
           /\ query[r] = query[o]
           /\ InInstall(r)) =>
              /\ Repo(r)' = NoRepo
              /\ pc'[r] = pc[r]
              /\ err'[r] = NoError]_vars

\* An attempt has built its image from, after writing its environment into,
\* a directory that the other attempt for the same solution cloned after
\* removing the one it had cloned itself.
BuiltFromForeignClone ==
    \E r \in Pair, o \in Pair :
        /\ r # o
        /\ query[r] = query[o]
        /\ InInstall(r)
        /\ Did(o, "rm -rf")
        /\ Repo(r).by = o
        /\ Did(r, "mergeEnvironmentFiles")
        /\ Last(ops[r]) = Op("docker build", "ok")

\* An attempt has force-removed the running container the other attempt for
\* the same solution had started and not yet finished with.
RemovedContainerOfOther ==
    \E r \in Pair, o \in Pair :
        /\ r # o
        /\ query[r] = query[o]
        /\ pc[r] = "ds_restore"
        /\ Ran(o, "docker rm -f")
        /\ Last(ops[o]) = Op("docker rm -f", "ok")
        /\ containers[Config(r).containerName] = "absent"

\* ------------------------------------------------------ the event stream

CountType(evs, type) == Cardinality({i \in 1..Len(evs) : evs[i].type = type})

\* The stream of request r so far: `connected` is its first event and occurs
\* once, it has at most one `error` event, and the response is ended at most
\* once, exactly when the handler has ended.
WellFormed(r) ==
    /\ pc[r] # "idle" => events[r] # <<>> /\ events[r][1] = ConnectedEvent
    /\ CountType(events[r], "connected") = (IF pc[r] = "idle" THEN 0 ELSE 1)
    /\ CountType(events[r], "error") <= 1
    /\ ended[r] = (IF pc[r] = "done" THEN 1 ELSE 0)

\* C33: the event stream of every progress request is well-formed after
\* every step, on the path of the missing id, of the success and of the
\* failure, and once the response is ended nothing is written and it is not
\* ended again.
StreamWellFormed ==
    [][\A r \in Reqs :
          /\ WellFormed(r)'
          /\ ended[r] >= 1 => events'[r] = events[r] /\ ended'[r] = ended[r]]_vars

\* The stream of an attempt that failed at its clone: connected, the error,
\* and the end.
StreamOfFailedClone ==
    \E r \in Reqs :
        /\ ended[r] = 1
        /\ events[r] = <<ConnectedEvent,
                        Event("error", <<"Command failed: ", "git clone">>)>>

\* ------------------------------------------- detectRepoStructure on its own

\* The entries without additional ports.
DetectIds == {"ai-doc-editor", "ai-recruiter", "ai-landing-page-generator"}

\* A composed install about to detect the structure of its clone, which has
\* any of the deployment descriptors: the clone, the cleanup, the template
\* copy and the merge have worked.
InitDetect ==
    /\ catalog = SOLUTION_CONFIGS
    /\ rootEnv = RootText
    /\ composeV1 = TRUE
    /\ composeV2 = FALSE
    /\ images = {}
    /\ containers = [n \in ContainerNames |-> "absent"]
    /\ \E id \in DetectIds, layout \in SUBSET DescriptorNames :
         LET cfg == SOLUTION_CONFIGS[id]
             local == Materialized(Cloned("r1", cfg, layout, TemplateText), cfg.envFile)
             rv == ParseEnvFile(RootText)
             lv == ParseEnvFile(local.f[".env"])
             mv == MergeVars(rv, lv)
         IN /\ query = [r \in Reqs |-> id]
            /\ repos = [n \in RepoNames |->
                          IF n = RepoPath(cfg)
                          THEN RenameSync(WriteFileSync(local, TempFile, Serialize(mv)),
                                          TempFile, TempEnvPath)
                          ELSE NoRepo]
            /\ rootVars = rv
            /\ localVars = lv
            /\ mergedVars = mv
            /\ outputs = <<Output(NoFile, Serialize(mv))>>
    /\ pc = [r \in Reqs |-> "dc_detect"]
    /\ invoked = [r \in Reqs |-> TRUE]
    /\ events = [r \in Reqs |-> <<ConnectedEvent>>]
    /\ ended = [r \in Reqs |-> 0]
    /\ ops = [r \in Reqs |-> <<Op("rm -rf", "ok"), Op("git clone", "ok"),
                               Op("docker rm -f", "ok"), Op("find cp", "ok"),
                               Op("mergeEnvironmentFiles", "ok")>>]
    /\ err = [r \in Reqs |-> NoError]
    /\ result = [r \in Reqs |-> NoResult]
    /\ structure = [r \in Reqs |-> NoStructure]
    /\ portIdx = [r \in Reqs |-> 0]
    /\ children = [r \in Reqs |-> {}]
    /\ io = "none"

NextDetect == \E r \in Reqs : DetectRepoStructure(r)

SpecDetect == InitDetect /\ [][NextDetect]_vars

\* The compose file names of the fixed list that come before name.
Before(name) ==
    {ComposeFiles[j] : j \in {k \in 1..Len(ComposeFiles) :
                                \E i \in 1..Len(ComposeFiles) :
                                    ComposeFiles[i] = name /\ k < i}}

ComposeNames == {ComposeFiles[i] : i \in 1..Len(ComposeFiles)}

\* C34: detection reports a compose descriptor exactly when one of the four
\* names exists in the repository root, with the first existing name of the
\* list (null when none exists), and a Dockerfile exactly when Dockerfile
\* exists, whatever the compose result; it changes no file and does not
\* raise.
DetectIsCorrect ==
    [][\A r \in Reqs :
          (pc[r] = "dc_detect" /\ pc'[r] # "dc_detect") =>
              LET st == structure'[r]
                  here == Repo(r).present
              IN /\ st.hasDockerCompose <=> here \cap ComposeNames # {}
                 /\ st.hasDockerCompose =>
                       /\ st.composeFile \in here \cap ComposeNames
                       /\ Before(st.composeFile) \cap here = {}
                 /\ ~st.hasDockerCompose => st.composeFile = "null"
                 /\ st.hasDockerfile <=> "Dockerfile" \in here
                 /\ repos' = repos
                 /\ Last(ops'[r]) = Op("detectRepoStructure", "ok")]_vars

\* Detection has found compose.yml in a root that has compose.yml,
\* compose.yaml and a Dockerfile.
DetectedSecondName ==
    \E r \in Reqs :
        /\ Ran(r, "detectRepoStructure")
        /\ Repo(r).present = {"compose.yml", "compose.yaml", "Dockerfile"}
        /\ structure[r] = [hasDockerCompose |-> TRUE, hasDockerfile |-> TRUE,
                           composeFile |-> "compose.yml"]

\* ------------------------------------------------ the root environment file

\* C35: no step of an installation attempt writes, renames or deletes the
\* root environment file: after every step it holds what it held before,
\* whether it exists or not.
RootEnvNeverWritten ==
    [][rootEnv' = rootEnv]_vars

\* An attempt has ended after its merge read the root file, its clone was
\* written and its scratch file removed, and the root file holds its text.
RootKeptThroughInstall ==
    \E r \in Reqs :
        /\ Succeeded(r)
        /\ Did(r, "rm -rf")
        /\ Did(r, "rm -f")
        /\ rootVars # <<>>
        /\ rootEnv = RootText

\* ------------------------------------------------ the form of the compose tool

\* The attempt of r has invoked the compose build-and-up command, which names
\* the standalone binary `docker-compose`.
InvokedComposeUp(r) == pc[r] = "dc_up" \/ Ran(r, "docker-compose up")

\* C36: the compose build-and-up command is invoked only through a form of
\* the tool that the availability check of the attempt found present or that
\* the installation step installed: the standalone binary, which the command
\* names, is invoked only after `docker-compose --version` or the
\* installation has worked, and not when only the plugin form was found.
ComposeUpUsesFormFound ==
    \A r \in Reqs :
        InvokedComposeUp(r) =>
            \/ Did(r, "docker-compose --version")
            \/ Did(r, "wget docker-compose")

\* The availability check found only the plugin, and the attempt failed at
\* `docker-compose up`, the binary being absent.
StandaloneInvokedAfterPluginFound ==
    \E r \in Reqs :
        /\ ~composeV1
        /\ Did(r, "docker compose version")
        /\ ~Ran(r, "wget docker-compose")
        /\ Failed(r)
        /\ err[r] = <<"Command failed: ", "docker-compose up">>

\* Where only the plugin form is there, no composed install succeeds.
PluginOnlyNeverSucceeds ==
    \A r \in Reqs :
        (~composeV1 /\ Did(r, "docker compose version")) => ~Succeeded(r)

\* ------------------------------------------------- no rollback on failure

\* The attempt of r has failed at the image build or the container start of
\* the single path, or at the compose-up, all of which come after the merged
\* file was copied over `.env`.
FailedAfterCopy(r) ==
    /\ Failed(r)
    /\ Ran(r, "cp")
    /\ Last(ops[r]).op \in DeployOps
    /\ Last(ops[r]).out # "ok"

\* C37: when an install fails at the build, the start or the compose-up,
\* nothing is restored or deleted after the failure: in the Failed state
\* `.env` of the clone holds what the merge wrote, the values of the root file
\* among it, and the merge scratch file is still there with the same content.
FailureLeavesMerged ==
    \A r \in Reqs :
        FailedAfterCopy(r) =>
            /\ outputs # <<>>
            /\ Repo(r).f[".env"] = Last(outputs).after
            /\ Repo(r).f[TempEnvPath] = Last(outputs).after
            /\ Repo(r).f[TempEnvPath] # NoFile
            /\ rootEnv = RootText =>
                  Get(ParseEnvFile(Repo(r).f[".env"]), <<"A">>) = <<"1">>

\* The compose-up has failed and has left the merged `.env`, with the value
\* of the root file for A, and the scratch file in a clone that has the
\* template.
ComposeFailedLeftMerged ==
    \E r \in Reqs :
        /\ FailedAfterCopy(r)
        /\ Last(ops[r]).op = "docker-compose up"
        /\ Template(r) = TemplateText
        /\ Repo(r).f[".env"] # Template(r)
        /\ Get(ParseEnvFile(Repo(r).f[".env"]), <<"A">>) = <<"1">>
        /\ Repo(r).f[TempEnvPath] = Repo(r).f[".env"]

\* ------------------------------------------------ merge, again and back

\* C38: the file the merge writes parses back to exactly the merged mapping,
\* and merging the root mapping with the merged mapping gives the merged
\* mapping again.
MergeRoundTrips ==
    Merged =>
        /\ ParseEnvFile(repos[MergeRepo].f[TempEnvPath]) = mergedVars
        /\ MergeVars(rootVars, mergedVars) = mergedVars
        /\ MergeVars(rootVars, ParseEnvFile(repos[MergeRepo].f[TempEnvPath])) = mergedVars

\* A merge has returned in which a local value has overridden a root value,
\* an empty local value has given way to the root value, and a key of the
\* root alone is kept.
MergedThreeWays ==
    /\ Merged
    /\ rootVars = <<[k |-> <<"A">>, v |-> <<"1">>], [k |-> <<"B">>, v |-> <<"2">>]>>
    /\ localVars = <<[k |-> <<"A">>, v |-> <<"3">>], [k |-> <<"C">>, v |-> <<>>]>>
    /\ mergedVars = <<[k |-> <<"A">>, v |-> <<"3">>], [k |-> <<"B">>, v |-> <<"2">>],
                      [k |-> <<"C">>, v |-> <<>>]>>

====
